---- MODULE Spec2Model ----
(***************************************************************************)
(* The run orchestrator of the client_actions store module:                *)
(* run -> runActionsOnClient -> runActionOnClient, together with the run   *)
(* store (startNewRun, addNewInstance).                                    *)
(*                                                                         *)
(* Every action of the model is one promise settling followed by the       *)
(* synchronous code that runs up to the next await, which is the unit of   *)
(* atomicity of the single-threaded event loop the code runs on.           *)
(***************************************************************************)
EXTENDS Integers, Sequences, FiniteSets, TLC

\* ------------------------------------------------------------------ bounds
MaxClients == 3   \* clients known to the clients store
MaxActions == 2   \* action ids selected for one client
MaxFaults == 2    \* calls that fail, or actions that do not succeed
MaxRuns == 2      \* runs started: the first run and the retries
MaxItems == 3     \* items of the list parallelTaskMap is called with
MaxPages == 3     \* pages of a report
MaxConcurrent == 2 \* calls of func parallelTaskMap keeps running at a time
MaxAccounts == 2   \* registered tax accounts of the client a runner works on
MaxLedgerPages == 5 \* pages of the ledger of one tax account
MaxFailedPages == 2 \* pages of the ledgers of a client whose fetch fails
MaxOutputs == 2    \* outputs in allRunOutputs

\* --------------------------------------------------------------- constants
NoTab == 0              \* let loggedInTabId = null
NoRun == -1             \* currentRunId: null

ClientIds == 1..MaxClients

\* Registry of client actions (state.actions), one action per combination of
\* the two capability flags runActionsOnClient looks at.
ActionOrder == <<"plain", "tab", "tax", "taxtab">>
ActionIds == {ActionOrder[n] : n \in DOMAIN ActionOrder}
actions ==
  [id \in ActionIds |->
    [requiresTaxTypes |-> id \in {"tax", "taxtab"},
     usesLoggedInTab |-> id \in {"tab", "taxtab"}]]
getActionById(id) == actions[id]

\* taskStates
PENDING == "pending"
SUCCESS == "success"
WARNING == "warning"
ERROR == "error"

\* Errors, by the place that throws them.
NoError == "none"
LoginError == "LoginError"
TaxTypesError == "TaxTypesError"
MissingTaxTypesError == "MissingTaxTypesError"
ActionError == "ActionError"
ValidationError == "ValidationError"
LogoutError == "LogoutError"

\* rootState.config.actions: the config of every action
config_actions == [id \in ActionIds |-> <<"config", id>>]

\* The sub-units of work of an action (pages, tax types) that can fail.
Units == {"unit"}
\* The input of an instance nobody gave an input to: it names no sub-unit.
NoInput == [units |-> {}]

VARIABLES
  \* the store: state of the client_actions module and what it reads
  instances,        \* state.instances, by instance id
  runs,             \* state.runs
  currentRunId,     \* state.currentRunId
  lastInstanceId,   \* module-level counter of instance ids
  taxTypes,         \* client.taxTypes of every client of the clients store
  sendNotifications,\* rootState.config.sendNotifications
  rootTask,         \* state of the task registered by tasks/setRootTask
  taskCount,        \* number of tasks createTask has created
  lastTabId,        \* the browser's counter of tab ids
  \* one invocation of run
  pc,               \* where the invocation of run stands
  clients,          \* const clients
  selected,         \* the action ids getClientsActionIds returns
  idx,              \* position of the for loop over clients
  cl,               \* one record per call of runActionsOnClient
  \* what the outside has seen
  notifications,    \* calls of notify
  shown,            \* errors passed to log.showError by this invocation
  closePending,     \* tabs closeTab was called on and that are not closed yet
  faults,           \* number of calls that failed so far
  atCall,           \* the store as it was when run was invoked
  \* one call of parallelTaskMap or getPagedData
  pm,               \* its arguments, its locals and what it has called
  \* one instance of a runner, outside of a run
  lg,               \* a tax payer ledger runner and the instance that retries it
  pl,               \* a pending liabilities runner
  mg,               \* storeProxy.allRunOutputs and storeProxy.output of an instance
  \* the invocations of run that share the store
  ov                \* one record per invocation of run, in the order of the calls

vars == <<instances, runs, currentRunId, lastInstanceId, taxTypes,
          sendNotifications, rootTask, taskCount, lastTabId, pc, clients,
          selected, idx, cl, notifications, shown, closePending, faults, atCall,
          pm, lg, pl, mg, ov>>

\* the variables of the runs
runVars == <<instances, runs, currentRunId, lastInstanceId, taxTypes,
             sendNotifications, rootTask, taskCount, lastTabId, pc, clients,
             selected, idx, cl, notifications, shown, closePending, faults, atCall>>

\* the variables of the runners
runnerVars == <<lg, pl, mg>>

\* ----------------------------------------------------------------- helpers
Range(s) == {s[n] : n \in DOMAIN s}

RECURSIVE SubSeqsOf(_, _)
\* the subsequences of s with at most n elements
SubSeqsOf(s, n) ==
  IF s = <<>> \/ n = 0 THEN {<<>>}
  ELSE LET rest == Tail(s)
       IN SubSeqsOf(rest, n) \cup {<<Head(s)>> \o t : t \in SubSeqsOf(rest, n - 1)}

\* The clients in the order of the clients list, which is not the order of
\* their ids, and the selections of clients to run on.
ClientOrder == [n \in 1..MaxClients |-> MaxClients + 1 - n]
ClientLists == SubSeqsOf(ClientOrder, MaxClients)

ActionLists == SubSeqsOf(ActionOrder, MaxActions)

EmptyMap == [a \in {} |-> <<>>]

\* ------------------------------------------------------------- task states
\* task.setError(error)
setError(state) == ERROR

\* task.setStateBasedOnChildren(): error > warning > success
setStateBasedOnChildren(childStates) ==
  IF \E n \in DOMAIN childStates : childStates[n] = ERROR THEN ERROR
  ELSE IF \E n \in DOMAIN childStates : childStates[n] = WARNING THEN WARNING
  ELSE SUCCESS

\* State of `task` after taskFunction({task, func, setState,
\* setStateBasedOnChildren}) when func threw (threw) or returned.
taskFunction(state, threw, setState, basedOnChildren, childStates) ==
  IF threw THEN setError(state)
  ELSE IF ~setState THEN state
  ELSE IF basedOnChildren THEN setStateBasedOnChildren(childStates)
  ELSE IF state \in {ERROR, WARNING} THEN state
  ELSE SUCCESS

\* taskFunction({catchErrors}): whether the error func threw reaches the
\* caller of taskFunction
taskFunction_rethrows(threw, catchErrors) == threw /\ ~catchErrors

\* options.catchErrors of the call of taskFunction in run
run_catchErrors == TRUE

\* Mutant: run leaves the state of the root task to taskFunction's default.
run_setStateBasedOnChildren_unset == FALSE

\* options.setStateBasedOnChildren of the call of taskFunction in run
run_setStateBasedOnChildren == TRUE

\* options.catchErrors of the call of taskFunction in runActionsOnClient
runActionsOnClient_catchErrors == FALSE

\* Mutant: runActionOnClient asks taskFunction to catch the errors.
runActionOnClient_catchErrors_set == TRUE

\* options.catchErrors of the call of taskFunction in runActionOnClient
runActionOnClient_catchErrors == FALSE

\* The catch block of runActionOnClient runs when func threw.
runActionOnClient_caught(threw) ==
  taskFunction_rethrows(threw, runActionOnClient_catchErrors)

\* ------------------------------------------------------------ the run store
\* Mutant: the new run takes the place of the runs before it.
startNewRun_replace(rs) == <<[instancesByActionId |-> EmptyMap]>>

\* mutation startNewRun
startNewRun(rs) == Append(rs, [instancesByActionId |-> EmptyMap])

\* mutation addNewInstance: the instances store after adding `instance`
addNewInstance_instances(insts, instanceId, instance) ==
  [id \in DOMAIN insts \cup {instanceId} |->
     IF id = instanceId THEN instance ELSE insts[id]]

\* mutation addNewInstance: the runs after adding instanceId to the current run
addNewInstance_runs(rs, runId, actionId, instanceId) ==
  LET byAction == rs[runId + 1].instancesByActionId
      withKey == IF actionId \in DOMAIN byAction THEN byAction
                 ELSE [a \in DOMAIN byAction \cup {actionId} |->
                         IF a = actionId THEN <<>> ELSE byAction[a]]
  IN [rs EXCEPT ![runId + 1].instancesByActionId =
        [withKey EXCEPT ![actionId] = Append(withKey[actionId], instanceId)]]

\* ----------------------------------------------------------------- getters
\* instance.shouldRetry(): the instance has an error or its failure
\* bookkeeping says that some of its work failed
shouldRetry(instance) == instance.error # NoError \/ instance.failures # {}

\* instance.getRetryInput(): the input that asks for the failed work only
getRetryInput(instance) == [units |-> instance.failures]

getInstanceById(insts, id) == insts[id]

\* Mutant: the current run is the first run.
currentRun_first(rs, runId) == rs[1]

\* currentRun: state => state.runs[state.currentRunId]
currentRun(rs, runId) == rs[runId + 1]

RECURSIVE keysInOrder(_)
\* Object.values(instancesByActionId) goes through the keys in the order of
\* their insertion: the key whose first instance id is the smallest is first.
keysInOrder(byAction) ==
  IF DOMAIN byAction = {} THEN <<>>
  ELSE LET first == CHOOSE a \in DOMAIN byAction :
                      \A b \in DOMAIN byAction : byAction[a][1] <= byAction[b][1]
       IN <<first>> \o keysInOrder([a \in DOMAIN byAction \ {first} |-> byAction[a]])

RECURSIVE failuresOf(_, _)
\* The failures of the instances of the list instanceIds, in its order.
failuresOf(insts, instanceIds) ==
  IF instanceIds = <<>> THEN <<>>
  ELSE LET instance == getInstanceById(insts, Head(instanceIds))
       IN (IF shouldRetry(instance)
           THEN <<[clientId |-> instance.client, actionId |-> instance.action,
                   error |-> instance.error]>>
           ELSE <<>>) \o failuresOf(insts, Tail(instanceIds))

RECURSIVE failuresOfKeys(_, _, _)
failuresOfKeys(insts, byAction, keys) ==
  IF keys = <<>> THEN <<>>
  ELSE failuresOf(insts, byAction[Head(keys)]) \o failuresOfKeys(insts, byAction, Tail(keys))

\* getter retryableFailures
retryableFailures(insts, rs, runId) ==
  IF runId = NoRun THEN <<>>
  ELSE LET byAction == currentRun(rs, runId).instancesByActionId
       IN failuresOfKeys(insts, byAction, keysInOrder(byAction))

\* getter retryableFailuresByClient
retryableFailuresByClient(insts, rs, runId) ==
  LET failures == retryableFailures(insts, rs, runId)
  IN [clientId \in {failures[n].clientId : n \in DOMAIN failures} |->
        SelectSeq(failures, LAMBDA failure : failure.clientId = clientId)]

\* getter anyRetryableFailures
anyRetryableFailures(insts, rs, runId) == Len(retryableFailures(insts, rs, runId)) > 0

RECURSIVE outputsOf(_, _, _)
\* The loop of getOutputsOfAction over instanceIds: outputs[instance.client.id]
\* is set for each instance in turn (value: instance.output is the output the
\* runner has stored, which the instances of this model do not carry).
outputsOf(insts, actionId, instanceIds) ==
  IF instanceIds = <<>> THEN EmptyMap
  ELSE LET instance == getInstanceById(insts, instanceIds[Len(instanceIds)])
           before == outputsOf(insts, actionId, SubSeq(instanceIds, 1, Len(instanceIds) - 1))
       IN [clientId \in DOMAIN before \cup {instance.client} |->
             IF clientId = instance.client
             THEN [actionId |-> actionId, clientId |-> instance.client,
                   error |-> instance.error]
             ELSE before[clientId]]

\* getter getOutputsOfAction(actionId): the outputs by client id, or that it
\* throws: instancesByActionId[actionId] is undefined when the current run
\* has no instance of the action, and for...of on undefined is a TypeError
getOutputsOfAction(insts, rs, runId, actionId) ==
  IF runId = NoRun THEN [threw |-> FALSE, outputs |-> EmptyMap]
  ELSE LET byAction == currentRun(rs, runId).instancesByActionId
       IN IF actionId \notin DOMAIN byAction
          THEN [threw |-> TRUE, outputs |-> EmptyMap]
          ELSE [threw |-> FALSE, outputs |-> outputsOf(insts, actionId, byAction[actionId])]

RECURSIVE ObjectKeys(_)
\* Object.keys of an object whose keys are client ids: integer keys come in
\* ascending order
ObjectKeys(obj) ==
  IF DOMAIN obj = {} THEN <<>>
  ELSE LET least == CHOOSE k \in DOMAIN obj : \A j \in DOMAIN obj : k <= j
       IN <<least>> \o ObjectKeys([k \in DOMAIN obj \ {least} |-> obj[k]])

\* ------------------------------------------------- runActionsOnClient: data
\* The locals of one call of runActionsOnClient, and what it has called.
newClientCall(client, actionIds) ==
  [client |-> client,
   actionIds |-> actionIds,
   pc |-> "createTask",
   promise |-> "pending",
   mainState |-> "none",
   instanceIds |-> <<>>,
   loggedInTabId |-> NoTab,
   loggedOut |-> FALSE,
   anyActionsNeedLoggedInTab |-> FALSE,
   taxTypesFetch |-> "none",
   act |-> <<>>,
   loginCalls |-> 0,
   logoutCalls |-> 0,
   logoutTabId |-> NoTab,
   closeTabCalls |-> <<>>]

\* The locals of one call of runActionOnClient.
newActionCall(tabId) ==
  [pc |-> "createTask",
   state |-> "none",
   taskHasError |-> FALSE,
   loggedInTabId |-> tabId,
   runTabId |-> NoTab,
   ran |-> FALSE]

isSingleAction(c) == Len(c.actionIds) = 1

\* actionsThatRequire.loggedInTab and actionsThatRequire.taxTypes
actionsThatRequire(actionIds) ==
  [loggedInTab |-> SelectSeq(actionIds, LAMBDA a : getActionById(a).usesLoggedInTab),
   taxTypes |-> SelectSeq(actionIds, LAMBDA a : getActionById(a).requiresTaxTypes)]

anyActionsRequireTaxTypes(c) == Len(actionsThatRequire(c.actionIds).taxTypes) > 0

\* Mutant: the error of the fetch is rethrown when any action requires them.
allActionsRequireTaxTypes_any(c) ==
  Len(actionsThatRequire(c.actionIds).taxTypes) > 0

\* Mutant: the error of the fetch is never rethrown.
allActionsRequireTaxTypes_never(c) == FALSE

\* if all actions require tax types
allActionsRequireTaxTypes(c) ==
  Len(actionsThatRequire(c.actionIds).taxTypes) = Len(c.actionIds)

\* mainTask.childStateCounts[state]: the action tasks are the children of the
\* main task whose state the actions decide.
childStateCounts(c, state) == Cardinality({k \in DOMAIN c.act : c.act[k].state = state})

\* Mutant: only the first instance of the client gets the error.
setInstancesError_first(insts, ids, error) ==
  [id \in DOMAIN insts |->
     IF ids # <<>> /\ id = ids[1] THEN [insts[id] EXCEPT !.error = error] ELSE insts[id]]

\* instance.error = error for every instance of the client
setInstancesError(insts, ids, error) ==
  [id \in DOMAIN insts |->
     IF id \in Range(ids) THEN [insts[id] EXCEPT !.error = error] ELSE insts[id]]

\* Mutant: the ids start at 0 again for every client.
newInstanceIds_reuse(c) == [k \in 1..Len(c.actionIds) |-> k - 1]

\* The instance ids the loop over `actions` hands out.
newInstanceIds(c) == [k \in 1..Len(c.actionIds) |-> lastInstanceId + k - 1]

RECURSIVE initInstances(_, _, _, _)
\* The instances store after the first k actions of the client got their
\* instance: new ClientActionRunner(), init({client, config}), addNewInstance.
initInstances(insts, c, ids, k) ==
  IF k = 0 THEN insts
  ELSE addNewInstance_instances(initInstances(insts, c, ids, k - 1), ids[k],
         [client |-> c.client, action |-> c.actionIds[k],
          config |-> config_actions[c.actionIds[k]], input |-> NoInput,
          error |-> NoError, failures |-> {}])

RECURSIVE recordInstances(_, _, _, _)
\* The runs after the first k instances were added to the current run.
recordInstances(rs, c, ids, k) ==
  IF k = 0 THEN rs
  ELSE addNewInstance_runs(recordInstances(rs, c, ids, k - 1), currentRunId,
         c.actionIds[k], ids[k])

\* Mutant: the tab is closed whether or not an action asked to keep it open.
mustCloseTab_anyAction(c) == ~c.loggedOut /\ c.loggedInTabId # NoTab

\* Mutant: loggedOut is set before logout is awaited, so that a logout that
\* throws leaves the tab open.
mustCloseTab_unlessLogoutCalled(c) ==
  c.anyActionsNeedLoggedInTab /\ c.logoutCalls = 0 /\ c.loggedInTabId # NoTab

\* catch (error) of the body of the main task's taskFunction, the rethrow
\* through taskFunction and the catch around it: the tab is closed if an
\* action asked to keep it open and logout did not complete.
mustCloseTab(c) ==
  c.anyActionsNeedLoggedInTab /\ ~c.loggedOut /\ c.loggedInTabId # NoTab

\* Mutant: the catch block around the main task's taskFunction is missing.
runActionsOnClient_rethrow(threw) == IF threw THEN "rejected" ELSE "resolved"

\* try { await taskFunction(...) } catch (error) { log.showError(error) }:
\* what the promise of runActionsOnClient settles to when the main task's
\* function threw or returned.
runActionsOnClient_settle(threw) == "resolved"

\* Mutant: the error that reaches taskFunction is not written to the state
\* of the main task.
clientThrew_keepState(c) ==
  [c EXCEPT !.closeTabCalls = IF mustCloseTab(c) THEN Append(@, c.loggedInTabId) ELSE @,
            !.promise = runActionsOnClient_settle(TRUE),
            !.pc = "returned"]

\* The main task's function threw: the tab is closed if it must be,
\* taskFunction sets the state of the main task to error and rethrows, and
\* runActionsOnClient catches and returns.
clientThrew(c) ==
  [c EXCEPT !.closeTabCalls = IF mustCloseTab(c) THEN Append(@, c.loggedInTabId) ELSE @,
            !.mainState = taskFunction(@, TRUE, FALSE, FALSE, <<>>),
            !.promise = runActionsOnClient_settle(TRUE),
            !.pc = "returned"]

\* Mutant: the actions get the tab id that logout gets.
dispatchActions_logoutTab(c) ==
  [c EXCEPT !.pc = "actions",
            !.act = [k \in 1..Len(c.instanceIds) |->
                       newActionCall(IF c.anyActionsNeedLoggedInTab
                                     THEN c.loggedInTabId ELSE NoTab)]]

\* for (const instance of instances) promises.push(dispatch('runActionOnClient'))
\* Each call runs up to its await createTask.
dispatchActions(c) ==
  [c EXCEPT !.pc = "actions",
            !.act = [k \in 1..Len(c.instanceIds) |-> newActionCall(c.loggedInTabId)]]

\* Mutant: Promise.race instead of Promise.all.
PromiseRace(c) == c.act = <<>> \/ \E k \in DOMAIN c.act : c.act[k].pc = "settled"

\* await Promise.all(promises)
PromiseAll(c) == \A k \in DOMAIN c.act : c.act[k].pc = "settled"

\* Mutant: the dispatch in the loop is not awaited.
dispatchWithoutAwait(c) == TRUE

\* await dispatch('runActionsOnClient', ...) in the loop of run
awaitRunActionsOnClient(c) == c.pc = "returned"

\* ------------------------------------------- parallelTaskMap, getPagedData
\* The items parallelTaskMap is called on by the runners: tax accounts.
ItemOrder == <<"acc1", "acc2", "acc3", "acc4">>

RECURSIVE Orderings(_)
\* the sequences that list every element of the set once
Orderings(set) ==
  IF set = {} THEN {<<>>}
  ELSE UNION {{<<x>> \o t : t \in Orderings(set \ {x})} : x \in set}

\* The lists of at most MaxItems different items, in any order.
ItemLists ==
  UNION {Orderings(Range(sub)) : sub \in SubSeqsOf(ItemOrder, MaxItems)}

\* What func returns for an item or a page when it does not throw.
valueOf(item) == <<"value of", item>>

\* The slot of an item whose call of func has not settled.
emptySlot == [item |-> <<>>, kind |-> "empty", value |-> <<>>]

\* No call of parallelTaskMap or getPagedData has been made.
idleMapper ==
  [pc |-> "idle", kind |-> "none", list |-> <<>>, throws |-> {},
   maxConcurrent |-> 0, status |-> <<>>, results |-> <<>>, completed |-> <<>>,
   issued |-> <<>>, pages |-> <<>>, numPages |-> 0, allResults |-> <<>>]

\* The calls of func that are started when `free` more calls may run: the
\* first `free` items of the list that are still queued.
startQueued(status, free) ==
  [i \in DOMAIN status |->
     IF /\ status[i] = "queued"
        /\ Cardinality({j \in 1..(i - 1) : status[j] = "queued"}) < free
     THEN "running" ELSE status[i]]

\* The items whose call of func is started between `before` and `after`, in
\* the order of the list.
startedItems(list, before, after) ==
  LET started == SelectSeq([i \in DOMAIN list |-> i],
                           LAMBDA i : before[i] = "queued" /\ after[i] = "running")
  IN [n \in DOMAIN started |-> list[started[n]]]

running(status) == Cardinality({i \in DOMAIN status : status[i] = "running"})

\* parallelTaskMap({list, func}) up to its first await: a slot per item, and
\* the first calls of func
parallelTaskMap(m, list) ==
  LET queued == [i \in DOMAIN list |-> "queued"]
      status == startQueued(queued, m.maxConcurrent)
  IN [m EXCEPT !.pc = "mapping",
               !.list = list,
               !.status = status,
               !.results = [i \in DOMAIN list |-> emptySlot],
               !.issued = @ \o startedItems(list, queued, status)]

\* The result of the call of func for an item: {item, value} or {item, error}
resultOf(item, throws) ==
  IF item \in throws
  THEN [item |-> <<item>>, kind |-> "error", value |-> <<"Error">>]
  ELSE [item |-> <<item>>, kind |-> "value", value |-> valueOf(item)]

\* Mutant: the results are collected in the order of completion.
collect_push(results, i, result) ==
  LET first == CHOOSE n \in DOMAIN results :
                 /\ results[n].kind = "empty"
                 /\ \A j \in 1..(n - 1) : results[j].kind # "empty"
  IN [results EXCEPT ![first] = result]

\* The result of item i goes to slot i.
collect(results, i, result) == [results EXCEPT ![i] = result]

\* Mutant: all the pages are fetched once the number of pages is known.
remainingPages_all(numPages) == [n \in 1..numPages |-> n]

\* The pages left to fetch when page 1 has told the number of pages.
remainingPages(numPages) == [n \in 1..(numPages - 1) |-> n + 1]

\* The results of getPagedData, keyed by page: the one of page 1 if it was
\* fetched first, then the ones of parallelTaskMap.
pagedResults(m) ==
  (IF m.pages = <<>> THEN <<[page |-> 1, kind |-> "value", value |-> valueOf(1)]>>
   ELSE <<>>)
  \o [n \in DOMAIN m.results |->
        [page |-> m.results[n].item[1], kind |-> m.results[n].kind,
         value |-> m.results[n].value]]

\* ------------------------------------------------- the tax payer ledger
\* The tax type ids in the order of client.registeredTaxAccounts; an account
\* is named by its tax type id.
TaxTypeOrder == <<"ITX", "VAT", "PAYE", "WHT">>

\* client.registeredTaxAccounts
TaxAccountLists == {SubSeq(TaxTypeOrder, 1, n) : n \in 0..MaxAccounts}

TypeError == "TypeError"

\* why a fetch of a page fails: the table says that it has no records
\* (TableError 'NoRecordsFound') or any other error
FetchErrors == {"NoRecordsFound", "FetchError"}

RECURSIVE Ascending(_)
\* The numbers of a set, smallest first: the order of Object.values on an
\* object keyed by page.
Ascending(set) ==
  IF set = {} THEN <<>>
  ELSE LET least == CHOOSE x \in set : \A y \in set : x <= y
       IN <<least>> \o Ascending(set \ {least})

\* obj[key] = value
put(obj, key, value) ==
  [k \in DOMAIN obj \cup {key} |-> IF k = key THEN value ELSE obj[k]]

\* What the fetches for one tax account do: whether the account code is
\* found, the number of pages of the ledger and the pages whose fetch fails.
AccountFetches ==
  {[accountCode |-> FALSE, numPages |-> 1, failed |-> {}]}
  \cup UNION {{[accountCode |-> TRUE, numPages |-> n, failed |-> f] :
                 f \in {g \in SUBSET (1..n) : Cardinality(g) <= MaxFailedPages}} :
              n \in 1..MaxLedgerPages}

\* the failing pages of all the ledgers
failingPages(fetch) == UNION {{<<t, page>> : page \in fetch[t].failed} : t \in DOMAIN fetch}

\* What the fetches for the tax accounts of a client do.
LedgerFetches(taxAccounts) ==
  {fetch \in [Range(taxAccounts) -> AccountFetches] :
     Cardinality(failingPages(fetch)) <= MaxFailedPages}

\* Every fetch succeeds.
succeeds(fetch) ==
  [t \in DOMAIN fetch |-> [accountCode |-> TRUE, numPages |-> fetch[t].numPages,
                           failed |-> {}]]

\* defaultInput: all the tax types
\* An input object: taxTypeIds if there are any, pages if there are any.
makeInput(taxTypeIds, pages) ==
  [key \in (IF taxTypeIds # <<>> THEN {"taxTypeIds"} ELSE {})
           \cup (IF DOMAIN pages # {} THEN {"pages"} ELSE {}) |->
     IF key = "taxTypeIds" THEN [ids |-> taxTypeIds, pages |-> EmptyMap]
     ELSE [ids |-> <<>>, pages |-> pages]]

\* defaultInput: all the tax types
ledger_defaultInput == makeInput(TaxTypeOrder, EmptyMap)

\* getInput(input, 'taxTypeIds').exists
hasTaxTypeIds(input) == "taxTypeIds" \in DOMAIN input

\* the tax accounts left by the filter on input.taxTypeIds
selectedTaxAccounts(taxAccounts, input) ==
  IF hasTaxTypeIds(input)
  THEN SelectSeq(taxAccounts, LAMBDA t : t \in Range(input.taxTypeIds.ids))
  ELSE taxAccounts

\* getInput(input, `pages.${taxTypeId}`, { defaultValue: [] }).value
pagesInput(input, t) ==
  IF "pages" \in DOMAIN input /\ t \in DOMAIN input.pages.pages
  THEN input.pages.pages[t] ELSE <<>>

\* the records of page `page` of the ledger of tax type t
recordsOf(t, page) == <<<<t, page>>>>

\* The response of getDataFunction for a page: its records, or an error.
pageResponse(t, page, failed) ==
  IF page \in failed
  THEN [page |-> page, kind |-> "error", records |-> <<>>]
  ELSE [page |-> page, kind |-> "value", records |-> recordsOf(t, page)]

\* getPagedData({pages, getDataFunction}): the pages it fetches. With no
\* pages given, page 1 and, if that fetch succeeded, the other pages.
pagesFetched(pages, f) ==
  IF pages # <<>> THEN pages
  ELSE IF 1 \in f.failed THEN <<1>>
  ELSE <<1>> \o remainingPages(f.numPages)

\* The pages getTaxPayerLedgerPage is called for on behalf of tax type t.
ledger_requests(t, input, f) ==
  IF f.accountCode THEN pagesFetched(pagesInput(input, t), f) ELSE <<>>

\* The slot of parallelTaskMap for a tax account: func threw (the account
\* code was not found, or getPagedData threw because page 1 could not be
\* fetched), or func returned the responses of getPagedData.
taxTypeResponse(t, input, f) ==
  LET pages == pagesInput(input, t)
      fetched == pagesFetched(pages, f)
  IN IF ~f.accountCode \/ (pages = <<>> /\ 1 \in f.failed)
     THEN [item |-> t, kind |-> "error", value |-> <<>>]
     ELSE [item |-> t, kind |-> "value",
           value |-> [n \in DOMAIN fetched |-> pageResponse(t, fetched[n], f.failed)]]

\* failures = { taxTypes: [], pages: {} } and getInitialFailuresObj()
getInitialFailuresObj == [taxTypes |-> <<>>, pages |-> EmptyMap]

\* 'taxTypeIds' in this.failures: a read of this.failures.taxTypeIds gives
\* undefined otherwise, and .push, .length and .map on it throw a TypeError
hasFailedTaxTypeIds(failures) == "taxTypeIds" \in DOMAIN failures

RECURSIVE flatten(_)
flatten(seqs) == IF seqs = <<>> THEN <<>> ELSE Head(seqs) \o flatten(Tail(seqs))

\* One round of the loop over taxTypeResponses in runInternal.
ledger_collect(acc, response) ==
  LET t == response.item
      errors == SelectSeq(response.value, LAMBDA r : r.kind = "error")
      values == SelectSeq(response.value, LAMBDA r : r.kind = "value")
      records == flatten([n \in DOMAIN values |-> values[n].records])
      failedPages == [n \in DOMAIN errors |-> errors[n].page]
      pages == IF failedPages = <<>> THEN acc.failures.pages
               ELSE put(acc.failures.pages, t,
                        (IF t \in DOMAIN acc.failures.pages
                         THEN acc.failures.pages[t] ELSE <<>>) \o failedPages)
      marked == [acc.failures EXCEPT !.pages = pages]
  IN IF acc.threw THEN acc
     ELSE IF response.kind = "value" /\ t \notin DOMAIN pages
     THEN [acc EXCEPT !.failures = marked, !.output = put(@, t, records)]
     ELSE IF ~hasFailedTaxTypeIds(marked)
     THEN [acc EXCEPT !.failures = marked, !.threw = TRUE]
     ELSE [acc EXCEPT !.failures = [marked EXCEPT !.taxTypeIds = Append(@, t)],
                      !.output = IF response.kind = "value"
                                 THEN put(@, t, records) ELSE @]

RECURSIVE ledger_loop(_, _, _)
\* The loop over the first k of the taxTypeResponses.
ledger_loop(acc, responses, k) ==
  IF k = 0 THEN acc
  ELSE ledger_collect(ledger_loop(acc, responses, k - 1), responses[k])

\* runInternal of the ledger runner on the client's tax accounts with the
\* given input: the failures it leaves, the output it has set, and whether
\* it threw.
ledger_runInternal(taxAccounts, input, fetch) ==
  LET accounts == selectedTaxAccounts(taxAccounts, input)
      responses == [n \in DOMAIN accounts |->
                      taxTypeResponse(accounts[n], input, fetch[accounts[n]])]
      looped == ledger_loop([failures |-> getInitialFailuresObj, output |-> EmptyMap,
                             threw |-> FALSE], responses, Len(responses))
  IN [failures |-> looped.failures,
      outputSet |-> ~looped.threw,
      output |-> IF looped.threw THEN EmptyMap ELSE looped.output,
      threw |-> looped.threw,
      requested |-> [t \in Range(accounts) |-> ledger_requests(t, input, fetch[t])]]

\* ClientActionRunner.run: it catches what runInternal throws and sets the
\* error of the instance
ClientActionRunner_run(ran) ==
  [failures |-> ran.failures, outputSet |-> ran.outputSet, output |-> ran.output,
   error |-> IF ran.threw THEN TypeError ELSE NoError, requested |-> ran.requested]

\* checkIfAnyPagesFailed()
checkIfAnyPagesFailed(failures) == DOMAIN failures.pages # {}

\* checkIfAnythingFailed(): what it returns, or that it throws
checkIfAnythingFailed(failures) ==
  IF hasFailedTaxTypeIds(failures)
  THEN [threw |-> FALSE,
        value |-> Len(failures.taxTypeIds) > 0 \/ checkIfAnyPagesFailed(failures)]
  ELSE [threw |-> TRUE, value |-> FALSE]

\* shouldRetry() of the ledger runner: the instance has an error or
\* something failed; errorFirst tells which of the two is looked at first.
ledger_shouldRetry(error, failures, errorFirst) ==
  LET failed == checkIfAnythingFailed(failures)
  IN IF errorFirst /\ error # NoError THEN [threw |-> FALSE, value |-> TRUE]
     ELSE IF failed.threw THEN failed
     ELSE [threw |-> FALSE, value |-> error # NoError \/ failed.value]

\* getRetryInput() of the ledger runner: what it returns, or that it throws
ledger_getRetryInput(failures) ==
  IF hasFailedTaxTypeIds(failures)
  THEN [threw |-> FALSE, value |-> makeInput(failures.taxTypeIds, failures.pages)]
  ELSE [threw |-> TRUE, value |-> makeInput(<<>>, EmptyMap)]

\* The tax types with a fetch that fails, and of these the ones whose pages
\* fail one by one, page 1 having told the number of pages.
failingTaxTypes(taxAccounts, fetch) ==
  SelectSeq(taxAccounts, LAMBDA t : ~fetch[t].accountCode \/ fetch[t].failed # {})
partlyFailingTaxTypes(taxAccounts, fetch) ==
  SelectSeq(taxAccounts, LAMBDA t : fetch[t].failed # {} /\ 1 \notin fetch[t].failed)

\* The inputs an instance of the ledger action is given here: the default
\* input, and an input that names the tax types and the pages that fail
\* under `fetch`.
LedgerInputs(taxAccounts, fetch) ==
  {ledger_defaultInput,
   makeInput(failingTaxTypes(taxAccounts, fetch),
             [t \in Range(partlyFailingTaxTypes(taxAccounts, fetch)) |->
                Ascending(fetch[t].failed)])}

\* No runner has been constructed.
noInstance ==
  [failures |-> getInitialFailuresObj, outputSet |-> FALSE, output |-> EmptyMap,
   error |-> NoError, requested |-> EmptyMap]
idleLedger ==
  [pc |-> "idle", taxAccounts |-> <<>>, fetch |-> EmptyMap, cause |-> "FetchError",
   input |-> ledger_defaultInput, first |-> noInstance,
   shouldRetry |-> [called |-> FALSE, threw |-> FALSE, value |-> FALSE],
   retryInput |-> [called |-> FALSE, threw |-> FALSE, value |-> makeInput(<<>>, EmptyMap)],
   retryWith |-> ledger_defaultInput, retry |-> noInstance]
\* -------------------------------------------------- the pending liabilities
\* A value of the program: null, undefined, or an object or array with the
\* given content.
null == [kind |-> "null", value |-> <<>>]
undefined == [kind |-> "undefined", value |-> <<>>]
object(value) == [kind |-> "object", value |-> value]
\* Mutant: only undefined counts as no value.
truthy_defined(v) == v.kind # "undefined"

\* if (value)
truthy(v) == v.kind = "object"

\* What the report of a tax account is like: its last row is the grand
\* total; it has rows but no grand total; it has no rows; or a fetch fails,
\* with one of the FetchErrors.
ReportOutcomes == {"grandTotal", "noGrandTotal", "noRows"} \cup FetchErrors

\* getPendingLiabilities(client, taxAccount, parentTaskId): the totals or
\* null, or that it throws
getPendingLiabilities(t, outcome) ==
  IF outcome \in FetchErrors THEN [threw |-> TRUE, totals |-> null, error |-> outcome]
  ELSE [threw |-> FALSE,
        totals |-> IF outcome = "grandTotal" THEN object(<<"totals of", t>>)
                   ELSE IF outcome = "noRows" THEN object(<<"0">>)
                   ELSE null,
        error |-> "none"]

\* func(taxAccountKey, parentTaskId) of runInternal: the response it returns
pending_func(t, outcome) ==
  LET got == getPendingLiabilities(t, outcome)
  IN [threw |-> FALSE,
      response |-> [totals |-> got.totals,
                    retrievalErrors |-> IF got.threw THEN object(<<got.error>>)
                                        ELSE object(<<>>)]]

\* responses[i] of parallelTaskMap({count, func}): the slot {item, value} or
\* {item, error} of the call of func, or what func returned if the results
\* are not wrapped
pending_slot(i, called, wrapped) ==
  IF called.threw THEN [item |-> object(<<i>>), error |-> object(<<"Error">>)]
  ELSE IF wrapped THEN [item |-> object(<<i>>), value |-> object(<<called.response>>)]
  ELSE called.response

\* const { [name]: x } = obj
field(obj, name) == IF name \in DOMAIN obj THEN obj[name] ELSE undefined

\* Mutant: the retrieval errors are stored for every tax account.
pending_collect_always(output, t, slot) ==
  LET totals == field(slot, "totals")
      stored == [output EXCEPT !.retrievalErrors = put(@, t, field(slot, "retrievalErrors"))]
  IN IF truthy(totals) THEN [stored EXCEPT !.totals = put(@, t, totals)] ELSE stored

\* One round of the loop over taxAccounts in runInternal.
pending_collect(output, t, slot) ==
  LET totals == field(slot, "totals")
  IN IF truthy(totals)
     THEN [output EXCEPT !.totals = put(@, t, totals)]
     ELSE [output EXCEPT !.retrievalErrors = put(@, t, field(slot, "retrievalErrors"))]

RECURSIVE pending_loop(_, _, _, _)
\* The loop over the first k tax accounts.
pending_loop(taxAccounts, outcomes, wrapped, k) ==
  IF k = 0 THEN [totals |-> EmptyMap, retrievalErrors |-> EmptyMap]
  ELSE pending_collect(pending_loop(taxAccounts, outcomes, wrapped, k - 1),
                       taxAccounts[k],
                       pending_slot(k - 1, pending_func(taxAccounts[k],
                                                        outcomes[taxAccounts[k]]),
                                    wrapped))

\* runInternal of the pending liabilities runner: the output it stores and
\* whether it sets a retry reason
pending_runInternal(taxAccounts, outcomes, wrapped) ==
  LET output == pending_loop(taxAccounts, outcomes, wrapped, Len(taxAccounts))
  IN [output |-> output,
      outputSet |-> TRUE,
      retryReason |-> DOMAIN output.retrievalErrors # {},
      threw |-> FALSE]

idlePending ==
  [pc |-> "idle", taxAccounts |-> <<>>, outcomes |-> EmptyMap, wrapped |-> FALSE,
   output |-> [totals |-> EmptyMap, retrievalErrors |-> EmptyMap],
   outputSet |-> FALSE, retryReason |-> FALSE, threw |-> FALSE]
\* ------------------------------------------------------ mergeAllRunOutputs
\* The sub-units an output can have a key for, and what a run can have
\* stored for a sub-unit.
SubUnits == {"x", "y"}
SubUnitValues == {"records of run A", "records of run B"}
Outputs == UNION {[keys -> SubUnitValues] : keys \in SUBSET SubUnits}

RECURSIVE OutputLists(_)
\* the lists of at most n outputs
OutputLists(n) ==
  IF n = 0 THEN {<<>>}
  ELSE OutputLists(n - 1)
       \cup {Append(l, o) : l \in {m \in OutputLists(n - 1) : Len(m) = n - 1}, o \in Outputs}

\* the lists allRunOutputs is set to
AllOutputLists == OutputLists(MaxOutputs)

\* the keys of the outputs of a list
keysOf(outputs) == UNION {DOMAIN outputs[n] : n \in DOMAIN outputs}

\* Mutant: the output of the first run is left out.
mergeAllRunOutputs_tail(allRunOutputs) ==
  LET rest == IF allRunOutputs = <<>> THEN <<>> ELSE Tail(allRunOutputs)
  IN [key \in keysOf(rest) |->
        rest[CHOOSE n \in DOMAIN rest :
               /\ key \in DOMAIN rest[n]
               /\ \A m \in 1..(n - 1) : key \notin DOMAIN rest[m]][key]]

\* mergeAllRunOutputs(): every sub-unit is taken from the first run that
\* produced it, so that a retry fills in what had failed before.
mergeAllRunOutputs(allRunOutputs) ==
  [key \in keysOf(allRunOutputs) |->
     allRunOutputs[CHOOSE n \in DOMAIN allRunOutputs :
                     /\ key \in DOMAIN allRunOutputs[n]
                     /\ \A m \in 1..(n - 1) : key \notin DOMAIN allRunOutputs[m]][key]]

idleMerger ==
  [pc |-> "idle", allRunOutputs |-> <<>>, output |-> EmptyMap, previous |-> EmptyMap]

\* ---------------------------------------------------------------- the runs
Init ==
  /\ instances = EmptyMap
  /\ runs = <<>>
  /\ currentRunId = NoRun
  /\ lastInstanceId = 0
  /\ \E loaded \in {"null", "loaded"} : taxTypes = [c \in ClientIds |-> loaded]
  /\ sendNotifications \in BOOLEAN
  /\ rootTask = "none"
  /\ taskCount = 0
  /\ lastTabId = 0
  /\ pc = "idle"
  /\ clients = <<>>
  /\ selected = EmptyMap
  /\ idx = 0
  /\ cl = <<>>
  /\ notifications = 0
  /\ shown = {}
  /\ closePending = {}
  /\ faults = 0
  /\ atCall = [called |-> FALSE, retry |-> FALSE, failures |-> EmptyMap,
               runs |-> <<>>, currentRunId |-> NoRun,
               rootTask |-> "none", taskCount |-> 0, notifications |-> 0,
               lastInstanceId |-> 0]
  /\ pm = idleMapper
  /\ lg = idleLedger
  /\ pl = idlePending
  /\ mg = idleMerger
  /\ ov = <<>>

\* Mutant: the length test is off by one.
hasClients_offByOne(clientIds) == Len(clientIds) >= 0

\* if (clients.length > 0)
hasClients(clientIds) == Len(clientIds) > 0

\* The store as it is when run is invoked, by retryFailures or not.
storeAtCall(retry) ==
  [called |-> TRUE, retry |-> retry,
   failures |-> retryableFailuresByClient(instances, runs, currentRunId),
   runs |-> runs, currentRunId |-> currentRunId,
   rootTask |-> rootTask, taskCount |-> taskCount,
   notifications |-> notifications, lastInstanceId |-> lastInstanceId]

\* action run, up to its first await; getClientsActionIds is given as the
\* action ids it returns for every client of the list
run(clientIds, getClientsActionIds) ==
  /\ hasClients(clientIds) => Len(runs) < MaxRuns
  /\ clients' = clientIds
  /\ selected' = getClientsActionIds
  /\ idx' = 0
  /\ cl' = <<>>
  /\ IF hasClients(clientIds)
     THEN /\ runs' = startNewRun(runs)
          /\ currentRunId' = Len(runs') - 1
          /\ shown' = {}
          /\ pc' = "createRootTask"
     ELSE /\ shown' = {"No clients found"}
          /\ UNCHANGED <<runs, currentRunId, pc>>
  /\ UNCHANGED <<instances, lastInstanceId, taxTypes, sendNotifications, rootTask,
                 taskCount, lastTabId, notifications, closePending, faults, pm, runnerVars, ov>>

\* action runSelectedActionsOnAllClients, called when no run has been started
\* (or with no client): getClientsActionIds: () => actionIds
runSelectedActionsOnAllClients(clientIds, actionIds) ==
  /\ pc = "idle" \/ (pc = "done" /\ clientIds = <<>>)
  /\ atCall' = storeAtCall(FALSE)
  /\ run(clientIds, [c \in Range(clientIds) |-> actionIds])

\* Mutant: only the first failure of a client is retried.
failedActionIds_first(failures) == <<failures[1].actionId>>

\* The action ids of the failures of a client.
failedActionIds(failures) == [n \in DOMAIN failures |-> failures[n].actionId]

\* action retryFailures, called when the run is over: run is invoked with a
\* copy of retryableFailuresByClient
retryFailures ==
  LET copy == retryableFailuresByClient(instances, runs, currentRunId)
  IN /\ pc = "done"
     /\ atCall' = storeAtCall(TRUE)
     /\ run(ObjectKeys(copy),
            [clientId \in DOMAIN copy |-> failedActionIds(copy[clientId])])

\* run: createTask of the root task has resolved, tasks/setRootTask
run_createTask ==
  /\ pc = "createRootTask"
  /\ rootTask' = PENDING
  /\ taskCount' = taskCount + 1
  /\ pc' = "loop"
  /\ UNCHANGED <<instances, runs, currentRunId, lastInstanceId, taxTypes,
                 sendNotifications, lastTabId, clients, selected, idx, cl,
                 notifications, shown, closePending, faults, atCall, pm, runnerVars, ov>>

\* run: one iteration of for (const client of clients): the call of
\* runActionsOnClient, which runs up to its await createTask
run_loop ==
  /\ pc = "loop"
  /\ idx < Len(clients)
  /\ idx > 0 => awaitRunActionsOnClient(cl[idx])
  /\ IF idx > 0 /\ cl[idx].promise = "rejected"
     THEN \* func throws, taskFunction catches: catchErrors
          /\ rootTask' = taskFunction(rootTask, TRUE, TRUE,
                                      run_setStateBasedOnChildren, <<>>)
          /\ pc' = "finally"
          /\ UNCHANGED <<idx, cl>>
     ELSE /\ idx' = idx + 1
          /\ cl' = Append(cl, newClientCall(clients[idx + 1], selected[clients[idx + 1]]))
          /\ UNCHANGED <<rootTask, pc>>
  /\ UNCHANGED <<instances, runs, currentRunId, lastInstanceId, taxTypes,
                 sendNotifications, taskCount, lastTabId, clients,
                 selected, notifications, shown, closePending, faults, atCall, pm, runnerVars, ov>>

\* run: the loop is over, func returns and taskFunction sets the state of the
\* root task from its children, the main tasks of the clients
run_loopEnd ==
  /\ pc = "loop"
  /\ idx = Len(clients)
  /\ idx > 0 => awaitRunActionsOnClient(cl[idx])
  /\ rootTask' = taskFunction(rootTask, idx > 0 /\ cl[idx].promise = "rejected",
                              TRUE, run_setStateBasedOnChildren,
                              [n \in DOMAIN cl |-> cl[n].mainState])
  /\ pc' = "finally"
  /\ UNCHANGED <<instances, runs, currentRunId, lastInstanceId, taxTypes,
                 sendNotifications, taskCount, lastTabId, clients, selected, idx,
                 cl, notifications, shown, closePending, faults, atCall, pm, runnerVars, ov>>

\* Mutant: the notification is sent only when the root task succeeded.
notifyOnSuccess(sent) ==
  IF sendNotifications /\ rootTask = SUCCESS THEN sent + 1 ELSE sent

\* if (rootState.config.sendNotifications) { notify(...) }: the number of
\* notifications sent after the finally block of run
notify(sent) == IF sendNotifications THEN sent + 1 ELSE sent

\* run: finally { if (rootState.config.sendNotifications) notify(...) }, then
\* run returns, or throws what taskFunction rethrew
run_finally ==
  /\ pc = "finally"
  /\ notifications' = notify(notifications)
  /\ pc' = IF taskFunction_rethrows(\E i \in DOMAIN cl : cl[i].promise = "rejected",
                                    run_catchErrors)
           THEN "rejected" ELSE "done"
  /\ UNCHANGED <<instances, runs, currentRunId, lastInstanceId, taxTypes,
                 sendNotifications, rootTask, taskCount, lastTabId, clients,
                 selected, idx, cl, shown, closePending, faults, atCall, pm, runnerVars, ov>>

\* A call of the outside (login, fetch, instance.run, logout) that fails, or an
\* action that does not succeed, uses up one of the faults of the run.
fault(failed) ==
  IF failed THEN faults < MaxFaults /\ faults' = faults + 1 ELSE faults' = faults

\* ------------------------------------------------------ runActionsOnClient
\* The error thrown inside the main task's function reaches the catch blocks:
\* the tab is closed if needed, the main task gets the error, it is shown.
runActionsOnClient_catch(i, c, error) ==
  /\ cl' = [cl EXCEPT ![i] = clientThrew(c)]
  /\ shown' = IF taskFunction_rethrows(TRUE, runActionsOnClient_catchErrors)
              THEN shown \cup {error} ELSE shown
  /\ closePending' = IF mustCloseTab(c)
                     THEN closePending \cup {c.loggedInTabId}
                     ELSE closePending

\* createTask of the main task has resolved: the instances are created and
\* added to the current run, then robustLogin is called
runActionsOnClient_createTask(i) ==
  LET c == cl[i]
      ids == newInstanceIds(c)
      n == Len(c.actionIds)
  IN /\ c.pc = "createTask"
     /\ taskCount' = taskCount + 1
     /\ instances' = initInstances(instances, c, ids, n)
     /\ runs' = recordInstances(runs, c, ids, n)
     /\ lastInstanceId' = lastInstanceId + n
     /\ cl' = [cl EXCEPT ![i] =
                 [c EXCEPT !.mainState = PENDING,
                           !.instanceIds = ids,
                           !.anyActionsNeedLoggedInTab =
                              Len(actionsThatRequire(c.actionIds).loggedInTab) > 0,
                           !.loginCalls = @ + 1,
                           !.pc = "login"]]
     /\ UNCHANGED <<currentRunId, taxTypes, sendNotifications, rootTask, lastTabId,
                    pc, clients, selected, idx, notifications, shown,
                    closePending, faults, atCall, pm, runnerVars, ov>>

\* robustLogin has settled: with a tab id, and the tax types are fetched or
\* the actions dispatched; or with an error
robustLogin(i, ok) ==
  LET c == cl[i]
      loggedIn == [c EXCEPT !.loggedInTabId = lastTabId + 1]
  IN /\ c.pc = "login"
     /\ fault(~ok)
     /\ IF ok
        THEN /\ lastTabId' = lastTabId + 1
             /\ cl' = [cl EXCEPT ![i] =
                         IF anyActionsRequireTaxTypes(c)
                         THEN [loggedIn EXCEPT !.pc = "taxTypes",
                                               !.taxTypesFetch = "pending"]
                         ELSE dispatchActions(loggedIn)]
             /\ UNCHANGED <<instances, shown, closePending>>
        ELSE /\ instances' = setInstancesError(instances, c.instanceIds, LoginError)
             /\ runActionsOnClient_catch(i, c, LoginError)
             /\ UNCHANGED lastTabId
     /\ UNCHANGED <<runs, currentRunId, lastInstanceId, taxTypes, sendNotifications,
                    rootTask, taskCount, pc, clients, selected, idx,
                    notifications, atCall, pm, runnerVars, ov>>

\* dispatch('clients/getTaxTypes') has settled
getTaxTypes(i, ok) ==
  LET c == cl[i]
  IN /\ c.pc = "taxTypes"
     /\ fault(~ok)
     /\ IF ok
        THEN /\ taxTypes' = [taxTypes EXCEPT ![c.client] = "loaded"]
             /\ cl' = [cl EXCEPT ![i] = dispatchActions([c EXCEPT !.taxTypesFetch = "ok"])]
             /\ UNCHANGED <<instances, shown, closePending>>
        ELSE /\ UNCHANGED taxTypes
             /\ IF allActionsRequireTaxTypes(c)
                THEN /\ instances' = setInstancesError(instances, c.instanceIds,
                                                       TaxTypesError)
                     /\ runActionsOnClient_catch(i,
                          [c EXCEPT !.taxTypesFetch = "failed"], TaxTypesError)
                ELSE /\ cl' = [cl EXCEPT ![i] =
                                 dispatchActions([c EXCEPT !.taxTypesFetch = "failed"])]
                     /\ UNCHANGED <<instances, shown, closePending>>
     /\ UNCHANGED <<runs, currentRunId, lastInstanceId, sendNotifications, rootTask,
                    taskCount, lastTabId, pc, clients, selected, idx,
                    notifications, atCall, pm, runnerVars, ov>>

\* ------------------------------------------------------- runActionOnClient
\* Mutant: the failure of an action is always shown as an error of the main
\* task, whether or not it is the only action.
runActionOnClient_end_error(c, k, taskState, taskHasError, threw) ==
  LET hasError == taskHasError \/ threw
  IN [c EXCEPT !.mainState = IF hasError THEN ERROR ELSE @,
               !.act[k] = [@ EXCEPT !.state = taskFunction(taskState, threw, FALSE,
                                                           FALSE, <<>>),
                                    !.taskHasError = hasError,
                                    !.pc = "settled"]]

\* Mutant: an action that succeeded writes the state of the main task too.
runActionOnClient_end_writeSuccess(c, k, taskState, taskHasError, threw) ==
  LET single == isSingleAction(c)
      caught == runActionOnClient_caught(threw)
      hasError == taskHasError \/ (caught /\ ~single)
  IN [c EXCEPT !.mainState = IF hasError \/ caught
                             THEN (IF single THEN ERROR ELSE WARNING)
                             ELSE SUCCESS,
               !.act[k] = [@ EXCEPT !.state = taskFunction(taskState, threw, FALSE,
                                                           FALSE, <<>>),
                                    !.taskHasError = hasError,
                                    !.pc = "settled"]]

\* The end of runActionOnClient for action k of the client: func has returned
\* leaving the task in taskState and taskHasError as given, or has thrown;
\* then taskFunction, the catch block and the finally block.
runActionOnClient_end(c, k, taskState, taskHasError, threw) ==
  LET single == isSingleAction(c)
      caught == runActionOnClient_caught(threw)
      afterCatch == IF caught /\ single THEN setError(c.mainState) ELSE c.mainState
      hasError == taskHasError \/ (caught /\ ~single)
      afterFinally == IF hasError
                      THEN (IF single THEN ERROR ELSE WARNING)
                      ELSE afterCatch
  IN [c EXCEPT !.mainState = afterFinally,
               !.act[k] = [@ EXCEPT !.state = taskFunction(taskState, threw, FALSE,
                                                           FALSE, <<>>),
                                    !.taskHasError = hasError,
                                    !.pc = "settled"]]

\* if (!(clientAction.requiresTaxTypes && client.taxTypes === null))
canRunAction(c, k) ==
  ~(getActionById(c.actionIds[k]).requiresTaxTypes /\ taxTypes[c.client] = "null")

\* createTask of the action's task has resolved: instance.run is called, or
\* MissingTaxTypesError is thrown
runActionOnClient_createTask(i, k) ==
  LET c == cl[i]
      a == c.act[k]
  IN /\ c.pc = "actions"
     /\ k \in DOMAIN c.act
     /\ a.pc = "createTask"
     /\ taskCount' = taskCount + 1
     /\ IF canRunAction(c, k)
        THEN /\ cl' = [cl EXCEPT ![i].act[k] =
                         [a EXCEPT !.state = PENDING, !.ran = TRUE,
                                   !.runTabId = a.loggedInTabId, !.pc = "run"]]
             /\ UNCHANGED <<instances, shown>>
        ELSE /\ cl' = [cl EXCEPT ![i] = runActionOnClient_end(c, k, PENDING, FALSE, TRUE)]
             /\ instances' = IF runActionOnClient_caught(TRUE)
                             THEN [instances EXCEPT ![c.instanceIds[k]].error =
                                     MissingTaxTypesError]
                             ELSE instances
             /\ shown' = IF runActionOnClient_caught(TRUE)
                         THEN shown \cup {MissingTaxTypesError} ELSE shown
     /\ UNCHANGED <<runs, currentRunId, lastInstanceId, taxTypes, sendNotifications,
                    rootTask, lastTabId, pc, clients, selected, idx,
                    notifications, closePending, faults, atCall, pm, runnerVars, ov>>

RunOutcomes == {SUCCESS, WARNING, ERROR, "throw"}

\* instance.run has settled: it returned leaving the action's task in state
\* success, warning or error (the error is then on the instance), or it threw
instance_run(i, k, outcome) ==
  LET c == cl[i]
      a == c.act[k]
  IN /\ c.pc = "actions"
     /\ k \in DOMAIN c.act
     /\ a.pc = "run"
     /\ fault(outcome # SUCCESS)
     /\ IF outcome = "throw"
        THEN /\ cl' = [cl EXCEPT ![i] = runActionOnClient_end(c, k, a.state, FALSE, TRUE)]
             /\ instances' = IF runActionOnClient_caught(TRUE)
                             THEN [instances EXCEPT ![c.instanceIds[k]].error =
                                     ValidationError]
                             ELSE instances
             /\ shown' = IF runActionOnClient_caught(TRUE)
                         THEN shown \cup {ValidationError} ELSE shown
        ELSE /\ cl' = [cl EXCEPT ![i] =
                         runActionOnClient_end(c, k, outcome, outcome = ERROR, FALSE)]
             /\ instances' =
                  [instances EXCEPT ![c.instanceIds[k]] =
                     [@ EXCEPT !.error = IF outcome = ERROR THEN ActionError ELSE @,
                               !.failures = IF outcome \in {WARNING, ERROR}
                                            THEN Units ELSE @]]
             /\ UNCHANGED shown
     /\ UNCHANGED <<runs, currentRunId, lastInstanceId, taxTypes, sendNotifications,
                    rootTask, taskCount, lastTabId, pc, clients, selected, idx,
                    notifications, closePending, atCall, pm, runnerVars, ov>>

\* ------------------------------------------------- runActionsOnClient: end
\* Promise.all(promises) has resolved: logout is called
runActionsOnClient_logout(i) ==
  LET c == cl[i]
  IN /\ c.pc = "actions"
     /\ PromiseAll(c)
     /\ cl' = [cl EXCEPT ![i] =
                 [c EXCEPT !.pc = "logout",
                           !.logoutCalls = @ + 1,
                           !.logoutTabId = IF c.anyActionsNeedLoggedInTab
                                           THEN c.loggedInTabId ELSE NoTab]]
     /\ UNCHANGED <<instances, runs, currentRunId, lastInstanceId, taxTypes,
                    sendNotifications, rootTask, taskCount, lastTabId, pc, clients,
                    selected, idx, notifications, shown, closePending, faults, atCall, pm, runnerVars, ov>>

\* Mutant: the state of the main task is set from its children whatever it
\* was before.
stateAfterLogout_overwrite(c) ==
  IF childStateCounts(c, WARNING) > 0 THEN WARNING ELSE SUCCESS

\* The state of the main task after a logout that completed.
stateAfterLogout(c) ==
  IF c.mainState # ERROR /\ c.mainState # WARNING
  THEN (IF childStateCounts(c, WARNING) > 0 THEN WARNING ELSE SUCCESS)
  ELSE c.mainState

\* logout has settled
logout(i, ok) ==
  LET c == cl[i]
  IN /\ c.pc = "logout"
     /\ fault(~ok)
     /\ IF ok
        THEN /\ cl' = [cl EXCEPT ![i] =
                         [c EXCEPT !.loggedOut = TRUE,
                                   !.mainState = stateAfterLogout(c),
                                   !.promise = runActionsOnClient_settle(FALSE),
                                   !.pc = "returned"]]
             /\ UNCHANGED <<shown, closePending>>
        ELSE runActionsOnClient_catch(i, c, LogoutError)
     /\ UNCHANGED <<instances, runs, currentRunId, lastInstanceId, taxTypes,
                    sendNotifications, rootTask, taskCount, lastTabId, pc, clients,
                    selected, idx, notifications, atCall, pm, runnerVars, ov>>

\* closeTab(loggedInTabId) is not awaited: the tab closes some time later
closeTab(tabId) ==
  /\ tabId \in closePending
  /\ closePending' = closePending \ {tabId}
  /\ UNCHANGED <<instances, runs, currentRunId, lastInstanceId, taxTypes,
                 sendNotifications, rootTask, taskCount, lastTabId, pc, clients,
                 selected, idx, cl, notifications, shown, faults, atCall, pm, runnerVars, ov>>

\* ------------------------------------- parallelTaskMap, getPagedData: steps
\* The lists of pages getPagedData is asked for: none, or some pages.
PageLists == SubSeqsOf([n \in 1..MaxPages |-> n], MaxPages)

\* parallelTaskMap is called on the list; func throws for the items of throws
parallelTaskMap_call(list, throws, maxConcurrent) ==
  /\ pm.pc = "idle"
  /\ throws \subseteq Range(list)
  /\ pm' = parallelTaskMap([pm EXCEPT !.kind = "map",
                                      !.throws = throws,
                                      !.maxConcurrent = maxConcurrent], list)
  /\ UNCHANGED <<runVars, runnerVars, ov>>

\* getPagedData is called for the pages of a report of numPages pages;
\* getDataFunction throws for the pages of throws. With no pages given it
\* calls getDataFunction(1), else parallelTaskMap on the pages.
getPagedData_call(pages, numPages, throws, maxConcurrent) ==
  /\ pm.pc = "idle"
  /\ Range(pages) \subseteq 1..numPages
  /\ throws \subseteq 1..numPages
  /\ LET m == [pm EXCEPT !.kind = "paged",
                         !.pages = pages,
                         !.numPages = numPages,
                         !.throws = throws,
                         !.maxConcurrent = maxConcurrent]
     IN pm' = IF pages = <<>>
              THEN [m EXCEPT !.pc = "first", !.issued = <<1>>]
              ELSE parallelTaskMap(m, pages)
  /\ UNCHANGED <<runVars, runnerVars, ov>>

\* getDataFunction(1) has settled: it threw, and getPagedData throws; or it
\* returned numPages, and parallelTaskMap is called on the other pages
getPagedData_firstPage ==
  /\ pm.pc = "first"
  /\ pm' = IF 1 \in pm.throws
           THEN [pm EXCEPT !.pc = "threw"]
           ELSE parallelTaskMap(pm, remainingPages(pm.numPages))
  /\ UNCHANGED <<runVars, runnerVars, ov>>

\* The call of func for item i of the list has settled: its result is
\* collected and the next queued calls are started.
func_settle(i) ==
  /\ pm.pc = "mapping"
  /\ i \in DOMAIN pm.status
  /\ pm.status[i] = "running"
  /\ LET done == [pm.status EXCEPT ![i] = "done"]
         status == startQueued(done, pm.maxConcurrent - running(done))
     IN pm' = [pm EXCEPT !.status = status,
                         !.results = collect(@, i, resultOf(pm.list[i], pm.throws)),
                         !.completed = Append(@, i),
                         !.issued = @ \o startedItems(pm.list, done, status)]
  /\ UNCHANGED <<runVars, runnerVars, ov>>

\* Every call of func has settled: parallelTaskMap returns its results, and
\* getPagedData the results keyed by page.
parallelTaskMap_return ==
  /\ pm.pc = "mapping"
  /\ \A i \in DOMAIN pm.status : pm.status[i] = "done"
  /\ pm' = [pm EXCEPT !.pc = "returned",
                      !.allResults = IF pm.kind = "paged" THEN pagedResults(pm) ELSE @]
  /\ UNCHANGED <<runVars, runnerVars, ov>>

\* ------------------------------------------------ the runners, on their own
\* No runner is at work.
runnersIdle == lg.pc = "idle" /\ pl.pc = "idle" /\ mg.pc = "idle"

\* An instance of the ledger action is run with the default input on a
\* client with the given tax accounts; the fetches do as `fetch` says and
\* the ones that fail do so with the error `cause`.
ledger_run(taxAccounts, cause) ==
  /\ runnersIdle
  /\ \E fetch \in LedgerFetches(taxAccounts) :
       /\ failingTaxTypes(taxAccounts, fetch) = <<>> => cause = "FetchError"
       /\ lg' = [lg EXCEPT !.pc = "ran",
                           !.taxAccounts = taxAccounts,
                           !.fetch = fetch,
                           !.cause = cause,
                           !.first = ClientActionRunner_run(
                                       ledger_runInternal(taxAccounts,
                                                          ledger_defaultInput, fetch))]
  /\ UNCHANGED <<runVars, ov, pm, pl, mg>>

\* shouldRetry() is called on the instance
ledger_askShouldRetry(errorFirst) ==
  /\ lg.pc = "ran"
  /\ LET asked == ledger_shouldRetry(lg.first.error, lg.first.failures, errorFirst)
     IN lg' = [lg EXCEPT !.pc = "asked",
                         !.shouldRetry = [called |-> TRUE, threw |-> asked.threw,
                                          value |-> asked.value]]
  /\ UNCHANGED <<runVars, ov, pm, pl, mg>>

\* getRetryInput() is called on the instance
ledger_askRetryInput ==
  /\ lg.pc = "asked"
  /\ LET asked == ledger_getRetryInput(lg.first.failures)
     IN lg' = [lg EXCEPT !.pc = "input",
                         !.retryInput = [called |-> TRUE, threw |-> asked.threw,
                                         value |-> asked.value]]
  /\ UNCHANGED <<runVars, ov, pm, pl, mg>>

\* A fresh instance of the action is run for the same client with the given
\* input; this time every fetch succeeds.
ledger_retry(input) ==
  /\ lg.pc = "input"
  /\ \/ input \in LedgerInputs(lg.taxAccounts, lg.fetch)
     \/ ~lg.retryInput.threw /\ input = lg.retryInput.value
  /\ lg' = [lg EXCEPT !.pc = "retried",
                      !.retryWith = input,
                      !.retry = ClientActionRunner_run(
                                  ledger_runInternal(lg.taxAccounts, input,
                                                     succeeds(lg.fetch)))]
  /\ UNCHANGED <<runVars, ov, pm, pl, mg>>

\* An instance of the pending liabilities action is run on a client with
\* the given tax accounts, whose reports are as `outcomes` says.
pending_run(taxAccounts, wrapped) ==
  /\ runnersIdle
  /\ \E outcomes \in [Range(taxAccounts) -> ReportOutcomes] :
       LET ran == pending_runInternal(taxAccounts, outcomes, wrapped)
       IN pl' = [pl EXCEPT !.pc = "ran",
                           !.taxAccounts = taxAccounts,
                           !.outcomes = outcomes,
                           !.wrapped = wrapped,
                           !.output = ran.output,
                           !.outputSet = ran.outputSet,
                           !.retryReason = ran.retryReason,
                           !.threw = ran.threw]
  /\ UNCHANGED <<runVars, ov, pm, lg, mg>>

\* testMergingAllRunOutputs: storeProxy.allRunOutputs = outputs
setAllRunOutputs ==
  /\ \/ /\ runnersIdle
        /\ \E outputs \in AllOutputLists :
             mg' = [mg EXCEPT !.pc = "set", !.allRunOutputs = outputs]
     \/ /\ mg.pc = "merged"
        /\ mg' = [mg EXCEPT !.pc = "set again", !.allRunOutputs = <<mg.output>>,
                            !.previous = mg.output]
  /\ UNCHANGED <<runVars, ov, pm, lg, pl>>

\* testMergingAllRunOutputs: instanceClass.mergeAllRunOutputs()
mergeAllRunOutputs_call ==
  /\ mg.pc \in {"set", "set again"}
  /\ mg' = [mg EXCEPT !.pc = IF mg.pc = "set" THEN "merged" ELSE "merged again",
                      !.output = mergeAllRunOutputs(mg.allRunOutputs)]
  /\ UNCHANGED <<runVars, ov, pm, lg, pl>>

\* ------------------------------------------------------------ specification
\* ------------------------------------------- invocations that share the store
\* Nothing in the store keeps run from being dispatched while an earlier
\* invocation is still awaiting: every invocation works on the same
\* state.runs, state.currentRunId and lastInstanceId.

\* action run is dispatched (by runSelectedActionsOnAllClients) with clients,
\* the first time or again with the same selection while the invocations
\* before it are still awaiting: commit('startNewRun'), then await createTask
overlap_run(clientIds, actionIds) ==
  /\ hasClients(clientIds)
  /\ Len(runs) < MaxRuns
  /\ ov # <<>> => clientIds = ov[1].clients /\ actionIds = ov[1].actionIds
  /\ runs' = startNewRun(runs)
  /\ currentRunId' = Len(runs') - 1
  /\ ov' = Append(ov, [runId |-> Len(runs') - 1, clients |-> clientIds,
                       actionIds |-> actionIds, idx |-> 0,
                       pc |-> "createRootTask", instanceIds |-> {}])
  /\ UNCHANGED <<instances, lastInstanceId, taxTypes, sendNotifications, rootTask, taskCount, lastTabId,
                 pc, clients, selected, idx, cl, notifications, shown, closePending,
                 faults, atCall, pm, runnerVars>>

\* createTask and tasks/setRootTask have resolved: the loop over the clients
\* starts and dispatches runActionsOnClient, which awaits createTask
overlap_setRootTask(v) ==
  /\ ov[v].pc = "createRootTask"
  /\ ov' = [ov EXCEPT ![v].idx = 1, ![v].pc = "createTask"]
  /\ UNCHANGED <<instances, runs, currentRunId, lastInstanceId, taxTypes, sendNotifications, rootTask, taskCount, lastTabId,
                 pc, clients, selected, idx, cl, notifications, shown, closePending,
                 faults, atCall, pm, runnerVars>>

\* createTask of the main task has resolved in runActionsOnClient of
\* invocation v: the instances are created and addNewInstance is committed
\* for each of them
overlap_createTask(v) ==
  LET c == [client |-> ov[v].clients[ov[v].idx], actionIds |-> ov[v].actionIds]
      ids == newInstanceIds(c)
      n == Len(c.actionIds)
  IN /\ ov[v].pc = "createTask"
     /\ instances' = initInstances(instances, c, ids, n)
     /\ runs' = recordInstances(runs, c, ids, n)
     /\ lastInstanceId' = lastInstanceId + n
     /\ ov' = [ov EXCEPT ![v].pc = "client",
                         ![v].instanceIds = @ \cup Range(ids)]
     /\ UNCHANGED <<currentRunId, taxTypes, sendNotifications, rootTask, taskCount, lastTabId,
                 pc, clients, selected, idx, cl, notifications, shown, closePending,
                 faults, atCall, pm, runnerVars>>

\* runActionsOnClient of invocation v has settled: the loop dispatches it on
\* the next client, or func ends (no client is left, or the call threw)
overlap_settle(v, ok) ==
  /\ ov[v].pc = "client"
  /\ ov' = IF ok /\ ov[v].idx < Len(ov[v].clients)
           THEN [ov EXCEPT ![v].idx = @ + 1, ![v].pc = "createTask"]
           ELSE [ov EXCEPT ![v].pc = "done"]
  /\ UNCHANGED <<instances, runs, currentRunId, lastInstanceId, taxTypes, sendNotifications, rootTask, taskCount, lastTabId,
                 pc, clients, selected, idx, cl, notifications, shown, closePending,
                 faults, atCall, pm, runnerVars>>

Next ==
  \/ \E clientIds \in ClientLists, actionIds \in ActionLists :
       runSelectedActionsOnAllClients(clientIds, actionIds)
  \/ run_createTask
  \/ run_loop
  \/ run_loopEnd
  \/ run_finally
  \/ \E i \in DOMAIN cl : runActionsOnClient_createTask(i)
  \/ \E i \in DOMAIN cl, ok \in BOOLEAN : robustLogin(i, ok)
  \/ \E i \in DOMAIN cl, ok \in BOOLEAN : getTaxTypes(i, ok)
  \/ \E i \in DOMAIN cl, k \in 1..MaxActions : runActionOnClient_createTask(i, k)
  \/ \E i \in DOMAIN cl, k \in 1..MaxActions, outcome \in RunOutcomes :
       instance_run(i, k, outcome)
  \/ \E i \in DOMAIN cl : runActionsOnClient_logout(i)
  \/ \E i \in DOMAIN cl, ok \in BOOLEAN : logout(i, ok)
  \/ \E tabId \in closePending : closeTab(tabId)

Spec == Init /\ [][Next]_vars

\* The runs and their retries: a first run with notifications enabled on
\* clients whose tax types are not loaded yet, then retryFailures any number
\* of times.
\* The calls of parallelTaskMap, the runners and the overlapping invocations
\* start from this state of the store too.
InitRetry ==
  /\ Init
  /\ sendNotifications
  /\ taxTypes = [c \in ClientIds |-> "null"]

NextRetry ==
  \/ \E clientIds \in ClientLists, actionIds \in ActionLists :
       runSelectedActionsOnAllClients(clientIds, actionIds)
  \/ retryFailures
  \/ run_createTask
  \/ run_loop
  \/ run_loopEnd
  \/ run_finally
  \/ \E i \in DOMAIN cl : runActionsOnClient_createTask(i)
  \/ \E i \in DOMAIN cl, ok \in BOOLEAN : robustLogin(i, ok)
  \/ \E i \in DOMAIN cl, ok \in BOOLEAN : getTaxTypes(i, ok)
  \/ \E i \in DOMAIN cl, k \in 1..MaxActions : runActionOnClient_createTask(i, k)
  \/ \E i \in DOMAIN cl, k \in 1..MaxActions, outcome \in RunOutcomes :
       instance_run(i, k, outcome)
  \/ \E i \in DOMAIN cl : runActionsOnClient_logout(i)
  \/ \E i \in DOMAIN cl, ok \in BOOLEAN : logout(i, ok)
  \/ \E tabId \in closePending : closeTab(tabId)

SpecRetry == InitRetry /\ [][NextRetry]_vars

\* One call of parallelTaskMap or of getPagedData, on its own.
NextMapper ==
  \/ \E list \in ItemLists, maxConcurrent \in 1..MaxConcurrent :
       \E throws \in SUBSET Range(list) :
         parallelTaskMap_call(list, throws, maxConcurrent)
  \/ \E pages \in PageLists, numPages \in 1..MaxPages, maxConcurrent \in 1..MaxConcurrent :
       \E throws \in SUBSET (1..numPages) :
         getPagedData_call(pages, numPages, throws, maxConcurrent)
  \/ getPagedData_firstPage
  \/ \E i \in 1..(MaxItems + MaxPages) : func_settle(i)
  \/ parallelTaskMap_return

SpecMapper == InitRetry /\ [][NextMapper]_vars

\* One instance of a runner on its own: what runInternal leaves behind, and
\* what the instance answers afterwards.
NextRunners ==
  \/ \E taxAccounts \in TaxAccountLists, cause \in FetchErrors :
       ledger_run(taxAccounts, cause)
  \/ \E errorFirst \in BOOLEAN : ledger_askShouldRetry(errorFirst)
  \/ ledger_askRetryInput
  \/ \E input \in LedgerInputs(lg.taxAccounts, lg.fetch) \cup {lg.retryInput.value} :
       ledger_retry(input)
  \/ \E taxAccounts \in TaxAccountLists, wrapped \in BOOLEAN :
       pending_run(taxAccounts, wrapped)
  \/ setAllRunOutputs
  \/ mergeAllRunOutputs_call

SpecRunners == InitRetry /\ [][NextRunners]_vars

\* Invocations of run that overlap: each is dispatched while the ones before
\* it may still be awaiting. The store starts as in InitRetry.
NextOverlap ==
  \/ \E n \in 1..MaxClients, actionIds \in ActionLists \ {<<>>} :
       overlap_run(SubSeq(ClientOrder, 1, n), actionIds)
  \/ \E v \in DOMAIN ov : overlap_setRootTask(v)
  \/ \E v \in DOMAIN ov : overlap_createTask(v)
  \/ \E v \in DOMAIN ov, ok \in BOOLEAN : overlap_settle(v, ok)

SpecOverlap == InitRetry /\ [][NextOverlap]_vars

\* One run in which every call that is awaited settles: createTask, login,
\* the fetch of the tax types, the run of an action and logout return or
\* throw, and the continuation of the code that awaits them then runs.
\* Nothing obliges the user to start a run.
Settling ==
  \/ run_createTask
  \/ run_loop
  \/ run_loopEnd
  \/ run_finally
  \/ \E i \in DOMAIN cl : runActionsOnClient_createTask(i)
  \/ \E i \in DOMAIN cl, ok \in BOOLEAN : robustLogin(i, ok)
  \/ \E i \in DOMAIN cl, ok \in BOOLEAN : getTaxTypes(i, ok)
  \/ \E i \in DOMAIN cl, k \in 1..MaxActions : runActionOnClient_createTask(i, k)
  \/ \E i \in DOMAIN cl, k \in 1..MaxActions, outcome \in RunOutcomes :
       instance_run(i, k, outcome)
  \/ \E i \in DOMAIN cl : runActionsOnClient_logout(i)
  \/ \E i \in DOMAIN cl, ok \in BOOLEAN : logout(i, ok)
  \/ \E tabId \in closePending : closeTab(tabId)

SpecLive == InitRetry /\ [][Next]_vars /\ WF_vars(Settling)

\* ===================================================================== claims
\* what the registry says of the actions of a call of runActionsOnClient
RequiresTaxTypes(c, k) == actions[c.actionIds[k]].requiresTaxTypes
UsesLoggedInTab(c) == \E k \in DOMAIN c.actionIds : actions[c.actionIds[k]].usesLoggedInTab
\* a login, a fetch of the tax types, an action or a logout of the client is
\* in progress
InProgress(c) == c.pc \in {"login", "taxTypes", "actions", "logout"}
\* the run of action k has thrown or has left its task in state error
ActionFailed(c, k) == c.act[k].pc = "settled" /\ c.act[k].state = ERROR

\* C1: no failure inside the batch of a client aborts the run:
\* runActionsOnClient is invoked for every client of the list, in the order
\* of the list, whatever happened to the clients before it.
C1_EveryClientIsRun ==
  /\ Len(cl) = idx
  /\ \A i \in DOMAIN cl : i <= Len(clients) /\ cl[i].client = clients[i]
  /\ pc \in {"finally", "done"} =>
       /\ Len(cl) = Len(clients)
       /\ \A i \in DOMAIN cl : cl[i].pc = "returned"

C1_Witness ==
  /\ pc = "done"
  /\ Len(cl) = MaxClients
  /\ cl[1].mainState = ERROR /\ cl[1].loginCalls = 1 /\ cl[1].act = <<>>
  /\ cl[2].logoutCalls = 1 /\ ~cl[2].loggedOut
  /\ \A i \in DOMAIN cl : cl[i].client = clients[i] /\ cl[i].pc = "returned"

\* C2: the clients are processed strictly one after the other: a step of a
\* client starts only when the batches of all clients before it have
\* finished, so at most one client has a login, a fetch of the tax types, an
\* action or a logout in progress.
C2_ClientsAreSequential ==
  /\ \A i, j \in DOMAIN cl : i < j => cl[i].pc = "returned"
  /\ Cardinality({i \in DOMAIN cl : InProgress(cl[i])}) <= 1

C2_Witness ==
  \E i \in DOMAIN cl :
    /\ i > 1
    /\ cl[i].pc = "actions"
    /\ \E k \in DOMAIN cl[i].act : cl[i].act[k].pc = "run"
    /\ cl[i - 1].logoutCalls = 1

\* C3 as stated: for a run over a non-empty list of clients the notification
\* is sent exactly once, only after the batch of the last client has
\* finished, also when clients failed.
C3_NotifiedExactlyOnce ==
  /\ notifications # atCall.notifications =>
       /\ pc = "done"
       /\ Len(cl) = Len(clients)
       /\ \A i \in DOMAIN cl : cl[i].pc = "returned"
  /\ (pc = "done" /\ clients # <<>>) => notifications = atCall.notifications + 1

\* C3 as amended: with config.sendNotifications set, the notification is
\* sent exactly once, only after the batch of the last client has finished,
\* also when some or all clients failed; without it none is sent.
C3_NotifiedOnceIfEnabled ==
  /\ notifications # atCall.notifications =>
       /\ pc = "done"
       /\ Len(cl) = Len(clients)
       /\ \A i \in DOMAIN cl : cl[i].pc = "returned"
  /\ (pc = "done" /\ clients # <<>>) =>
       notifications = atCall.notifications + (IF sendNotifications THEN 1 ELSE 0)

C3_Witness ==
  /\ pc = "done"
  /\ sendNotifications
  /\ Len(cl) >= 2
  /\ \A i \in DOMAIN cl : cl[i].mainState = ERROR
  /\ notifications = atCall.notifications + 1

\* C4: run with an empty list of client ids shows 'No clients found' and
\* changes nothing else: no run is appended, currentRunId is unchanged, no
\* root task and no other task is created, no instance is created, no login
\* is attempted and no notification is sent.
C4_EmptyRunChangesNothing ==
  (atCall.called /\ clients = <<>>) =>
    /\ shown = {"No clients found"}
    /\ runs = atCall.runs
    /\ currentRunId = atCall.currentRunId
    /\ rootTask = atCall.rootTask
    /\ taskCount = atCall.taskCount
    /\ lastInstanceId = atCall.lastInstanceId
    /\ notifications = atCall.notifications
    /\ cl = <<>>
    /\ pc \in {"idle", "done"}

C4_Witness ==
  /\ atCall.called
  /\ clients = <<>>
  /\ pc = "done"
  /\ currentRunId = 0
  /\ Len(runs) = 1
  /\ rootTask # "none"
  /\ shown = {"No clients found"}

\* C5: for each client robustLogin is invoked exactly once, before any of
\* the client's actions starts, and the tab id it returns is the one every
\* call of runActionOnClient gets and hands to instance.run.
C5_LoginOnceTabShared ==
  \A i \in DOMAIN cl :
    LET c == cl[i]
    IN /\ c.loginCalls <= 1
       /\ c.pc # "createTask" => c.loginCalls = 1
       /\ c.act # <<>> =>
            /\ c.loginCalls = 1
            /\ c.pc \notin {"createTask", "login"}
            /\ c.loggedInTabId # NoTab
       /\ \A k \in DOMAIN c.act :
            /\ c.act[k].loggedInTabId = c.loggedInTabId
            /\ c.act[k].ran => c.act[k].runTabId = c.loggedInTabId
       /\ \A j \in DOMAIN cl :
            (j # i /\ c.loggedInTabId # NoTab) => cl[j].loggedInTabId # c.loggedInTabId

C5_Witness ==
  \E i \in DOMAIN cl :
    /\ i > 1
    /\ cl[i - 1].loggedInTabId # NoTab
    /\ ~UsesLoggedInTab(cl[i])
    /\ Len(cl[i].act) = MaxActions
    /\ \A k \in DOMAIN cl[i].act :
         cl[i].act[k].ran /\ cl[i].act[k].runTabId = cl[i].loggedInTabId

\* C6: the session of a client is not logged out or closed while one of its
\* actions is running: logout and closeTab are called only when every call of
\* runActionOnClient started for the client has settled.
C6_NoLogoutWhileActionsRun ==
  \A i \in DOMAIN cl :
    (cl[i].logoutCalls > 0 \/ cl[i].closeTabCalls # <<>>) =>
      \A k \in DOMAIN cl[i].act : cl[i].act[k].pc = "settled"

C6_Witness ==
  \E i \in DOMAIN cl :
    /\ cl[i].pc = "logout"
    /\ Len(cl[i].act) = MaxActions
    /\ \A k \in DOMAIN cl[i].act : cl[i].act[k].ran /\ cl[i].act[k].pc = "settled"

\* C7: if an action of the client uses the logged in tab and login returned
\* a tab id, then whenever logout has not completed (an error before logout,
\* or logout throwing) closeTab has been called on that tab id when
\* runActionsOnClient returns.
C7_TabClosedUnlessLoggedOut ==
  \A i \in DOMAIN cl :
    (/\ cl[i].pc = "returned"
     /\ UsesLoggedInTab(cl[i])
     /\ cl[i].loggedInTabId # NoTab
     /\ ~cl[i].loggedOut) => cl[i].closeTabCalls = <<cl[i].loggedInTabId>>

C7_Witness ==
  \E i \in DOMAIN cl :
    /\ cl[i].pc = "returned"
    /\ UsesLoggedInTab(cl[i])
    /\ cl[i].logoutCalls = 1
    /\ ~cl[i].loggedOut
    /\ cl[i].closeTabCalls = <<cl[i].loggedInTabId>>

\* C8: when an action of a client fails (its run throws or leaves its task
\* in state error) the main task is in state error if it is the only action
\* of the client and in state warning if the client has several actions,
\* also when all of them fail, and this is the state it has after a logout
\* that completed; the other actions of the client still run to completion.
C8_ActionFailureOnMainTask ==
  \A i \in DOMAIN cl :
    LET c == cl[i]
    IN /\ (/\ \E k \in DOMAIN c.act : ActionFailed(c, k)
           /\ c.pc \in {"actions", "logout"} \/ c.loggedOut) =>
             c.mainState = IF Len(c.actionIds) = 1 THEN ERROR ELSE WARNING
       /\ (c.act # <<>> /\ c.pc \in {"logout", "returned"}) =>
             /\ Len(c.act) = Len(c.actionIds)
             /\ \A k \in DOMAIN c.act :
                  /\ c.act[k].pc = "settled"
                  /\ c.act[k].ran \/ instances[c.instanceIds[k]].error = MissingTaxTypesError

C8_Witness ==
  \E i \in DOMAIN cl :
    /\ cl[i].pc = "returned"
    /\ cl[i].loggedOut
    /\ Len(cl[i].act) > 1
    /\ \A k \in DOMAIN cl[i].act : cl[i].act[k].ran /\ ActionFailed(cl[i], k)
    /\ cl[i].mainState = WARNING

\* C9: if the fetch of the tax types fails for a client, client.taxTypes
\* stays null and only some of the client's actions require the tax types,
\* then every action that does not require them is run, every action that
\* requires them is not run and its instance gets a MissingTaxTypesError, and
\* logout is called.
C9_MissingTaxTypesOnlyForRequirers ==
  \A i \in DOMAIN cl :
    LET c == cl[i]
    IN (/\ c.taxTypesFetch = "failed"
        /\ taxTypes[c.client] = "null"
        /\ \E k \in DOMAIN c.actionIds : RequiresTaxTypes(c, k)
        /\ \E k \in DOMAIN c.actionIds : ~RequiresTaxTypes(c, k)) =>
         /\ Len(c.act) = Len(c.actionIds)
         /\ \A k \in DOMAIN c.act :
              /\ c.act[k].ran => ~RequiresTaxTypes(c, k)
              /\ c.act[k].pc = "settled" =>
                   IF RequiresTaxTypes(c, k)
                   THEN /\ ~c.act[k].ran
                        /\ instances[c.instanceIds[k]].error = MissingTaxTypesError
                   ELSE c.act[k].ran
         /\ c.pc = "returned" =>
              /\ c.logoutCalls = 1
              /\ \A k \in DOMAIN c.act : c.act[k].pc = "settled"

C9_Witness ==
  \E i \in DOMAIN cl :
    /\ cl[i].pc = "returned"
    /\ cl[i].taxTypesFetch = "failed"
    /\ taxTypes[cl[i].client] = "null"
    /\ cl[i].logoutCalls = 1
    /\ Len(cl[i].act) > 1
    /\ \E k \in DOMAIN cl[i].act :
         /\ RequiresTaxTypes(cl[i], k)
         /\ instances[cl[i].instanceIds[k]].error = MissingTaxTypesError
    /\ \E k \in DOMAIN cl[i].act : ~RequiresTaxTypes(cl[i], k) /\ cl[i].act[k].ran

\* The scenario of C10: three clients, one action that requires the tax
\* types, the fetch of the tax types of the second client fails, the first
\* and the third client complete normally, notifications are enabled.
C10_Scenario ==
  /\ pc = "done"
  /\ sendNotifications
  /\ Len(cl) = 3
  /\ \A i \in DOMAIN cl : cl[i].actionIds = <<"tax">>
  /\ cl[2].taxTypesFetch = "failed"
  /\ cl[1].mainState = SUCCESS
  /\ cl[3].mainState = SUCCESS

\* C10 as stated: in the scenario the instance of the second client records
\* a MissingTaxTypesError, the root task finishes in state warning and the
\* notification is sent.
C10_MissingPrerequisiteAndWarning ==
  C10_Scenario =>
    /\ instances[cl[2].instanceIds[1]].error = MissingTaxTypesError
    /\ cl[2].act = <<>> \/ ~cl[2].act[1].ran
    /\ rootTask = WARNING
    /\ notifications = atCall.notifications + 1

\* C10 as amended: in the scenario the error of the fetch is rethrown, since
\* all actions require the tax types: the instance of the second client
\* records the error of the fetch, its action is not started, the main task
\* of the second client ends in state error, the root task finishes in state
\* error and the notification is sent.
C10_FetchErrorAndError ==
  C10_Scenario =>
    /\ instances[cl[2].instanceIds[1]].error = TaxTypesError
    /\ cl[2].act = <<>>
    /\ cl[2].mainState = ERROR
    /\ rootTask = ERROR
    /\ notifications = atCall.notifications + 1

C10_Witness ==
  /\ C10_Scenario
  /\ instances[cl[2].instanceIds[1]].error = TaxTypesError
  /\ \A i \in {1, 3} : cl[i].loggedOut /\ cl[i].act[1].ran
  /\ rootTask = ERROR

\* the login of the client failed: robustLogin threw
LoginFailed(c) == c.pc = "returned" /\ c.loginCalls = 1 /\ c.loggedInTabId = NoTab
\* the logout of the client failed: logout threw
LogoutFailed(c) == c.pc = "returned" /\ c.logoutCalls = 1 /\ ~c.loggedOut
\* the error the actions of the client left on the instance of action k
ErrorOfAction(c, k) ==
  IF c.act[k].state # ERROR THEN {NoError}
  ELSE IF ~c.act[k].ran THEN {MissingTaxTypesError}
  ELSE {ActionError, ValidationError}
\* the run goes on after client i: the next client of the list is called
ProceedsAfter(i) ==
  /\ (i < Len(clients) /\ (idx > i \/ pc \in {"finally", "done"})) =>
        /\ Len(cl) > i
        /\ cl[i + 1].client = clients[i + 1]
  /\ pc \in {"finally", "done"} => Len(cl) = Len(clients)

\* C11 as stated: when the login or the logout of a client fails, every
\* instance created for the client in this run has that error as its error,
\* and the run proceeds to the next client.
C11_SessionErrorOnEveryInstance ==
  \A i \in DOMAIN cl :
    LET c == cl[i]
    IN /\ LoginFailed(c) =>
            /\ \A k \in DOMAIN c.instanceIds :
                 instances[c.instanceIds[k]].error = LoginError
            /\ ProceedsAfter(i)
       /\ LogoutFailed(c) =>
            /\ \A k \in DOMAIN c.instanceIds :
                 instances[c.instanceIds[k]].error = LogoutError
            /\ ProceedsAfter(i)

\* C11 as amended: a login that fails is fatal to the batch of the client, no
\* action is started and every instance created for the client in this run
\* has the login error as its error; a logout that fails comes after the
\* actions and leaves on every instance what its action left, the main task
\* gets the error; in both cases the run proceeds to the next client.
C11_LoginErrorOnEveryInstance ==
  \A i \in DOMAIN cl :
    LET c == cl[i]
    IN /\ LoginFailed(c) =>
            /\ c.act = <<>>
            /\ Len(c.instanceIds) = Len(c.actionIds)
            /\ \A k \in DOMAIN c.instanceIds :
                 instances[c.instanceIds[k]].error = LoginError
            /\ c.mainState = ERROR
            /\ LoginError \in shown
            /\ ProceedsAfter(i)
       /\ LogoutFailed(c) =>
            /\ Len(c.act) = Len(c.actionIds)
            /\ \A k \in DOMAIN c.instanceIds :
                 instances[c.instanceIds[k]].error \in ErrorOfAction(c, k)
            /\ c.mainState = ERROR
            /\ LogoutError \in shown
            /\ ProceedsAfter(i)

C11_Witness ==
  /\ pc = "done"
  /\ Len(cl) >= 2
  /\ LoginFailed(cl[1])
  /\ Len(cl[1].instanceIds) = MaxActions
  /\ \A k \in DOMAIN cl[1].instanceIds :
       instances[cl[1].instanceIds[k]].error = LoginError
  /\ LogoutFailed(cl[2])
  /\ \A k \in DOMAIN cl[2].instanceIds :
       cl[2].act[k].ran /\ instances[cl[2].instanceIds[k]].error = NoError

\* the instance ids recorded in run number r of the store (the first is 0)
InstanceIdsOfRun(r) ==
  LET byAction == runs[r + 1].instancesByActionId
  IN UNION {Range(byAction[a]) : a \in DOMAIN byAction}
\* the instances recorded in the current run that should be retried
RetryableIds ==
  IF currentRunId = NoRun THEN {}
  ELSE {id \in InstanceIdsOfRun(currentRunId) : shouldRetry(instances[id])}
\* the entry of the failures view for an instance
FailureOf(id) ==
  [clientId |-> instances[id].client, actionId |-> instances[id].action,
   error |-> instances[id].error]

\* C12: at every moment retryableFailures has exactly one entry (clientId,
\* actionId, error) for every instance recorded in the current run whose
\* shouldRetry() is true and no other entry, none for an instance of an
\* earlier run; retryableFailuresByClient has the same entries grouped by
\* client id, and is empty as long as the current run has no instance.
C12_FailuresOfCurrentRunOnly ==
  LET failures == retryableFailures(instances, runs, currentRunId)
      byClient == retryableFailuresByClient(instances, runs, currentRunId)
  IN /\ Len(failures) = Cardinality(RetryableIds)
     /\ \A id \in RetryableIds :
          Cardinality({n \in DOMAIN failures : failures[n] = FailureOf(id)}) = 1
     /\ \A n \in DOMAIN failures : \E id \in RetryableIds : failures[n] = FailureOf(id)
     /\ DOMAIN byClient = {instances[id].client : id \in RetryableIds}
     /\ \A c \in DOMAIN byClient :
          /\ Len(byClient[c]) = Cardinality({id \in RetryableIds : instances[id].client = c})
          /\ \A n \in DOMAIN byClient[c] :
               /\ byClient[c][n].clientId = c
               /\ \E m \in DOMAIN failures : failures[m] = byClient[c][n]
     /\ anyRetryableFailures(instances, runs, currentRunId) <=> RetryableIds # {}
     /\ (currentRunId # NoRun /\ InstanceIdsOfRun(currentRunId) = {}) =>
          byClient = EmptyMap

C12_Witness ==
  /\ pc = "done"
  /\ currentRunId = 1
  /\ \E id \in InstanceIdsOfRun(0) : shouldRetry(instances[id])
  /\ \E id \in InstanceIdsOfRun(1) : ~shouldRetry(instances[id])
  /\ \E id \in InstanceIdsOfRun(1) :
       /\ instances[id].error = NoError
       /\ shouldRetry(instances[id])
       /\ retryableFailures(instances, runs, currentRunId) = <<FailureOf(id)>>

\* the instances that should be retried in the run that was the current run
\* when run was invoked (the instances of a run do not change after it)
FailedAtCall ==
  IF atCall.currentRunId = NoRun THEN {}
  ELSE {id \in InstanceIdsOfRun(atCall.currentRunId) : shouldRetry(instances[id])}
FailedActionsAtCall(c) ==
  {instances[id].action : id \in {f \in FailedAtCall : instances[f].client = c}}
NoDuplicates(s) == Cardinality(Range(s)) = Len(s)

\* C13: retryFailures invokes run with exactly the client ids that have a
\* retryable failure in the current run when it is called and, for each of
\* them, with exactly the action ids of the client's retryable failures:
\* runActionsOnClient is called for these clients and actions only, and the
\* new run gets an instance for them only, although the failures view is
\* reset when the new run starts.
C13_RetryRunsWhatFailed ==
  atCall.retry =>
    /\ NoDuplicates(clients)
    /\ Range(clients) = {instances[id].client : id \in FailedAtCall}
    /\ DOMAIN selected = Range(clients)
    /\ \A c \in Range(clients) :
         /\ NoDuplicates(selected[c])
         /\ Range(selected[c]) = FailedActionsAtCall(c)
    /\ \A i \in DOMAIN cl :
         /\ cl[i].client = clients[i]
         /\ cl[i].actionIds = selected[clients[i]]
    /\ clients # <<>> =>
         /\ currentRunId = atCall.currentRunId + 1
         /\ \A id \in InstanceIdsOfRun(currentRunId) :
              instances[id].action \in FailedActionsAtCall(instances[id].client)
         /\ pc \in {"finally", "done"} =>
              \A f \in FailedAtCall :
                \E id \in InstanceIdsOfRun(currentRunId) :
                  /\ instances[id].client = instances[f].client
                  /\ instances[id].action = instances[f].action
    /\ pc = "createRootTask" =>
         retryableFailuresByClient(instances, runs, currentRunId) = EmptyMap

C13_Witness ==
  /\ atCall.retry
  /\ pc = "done"
  /\ Len(clients) = 2
  /\ Cardinality({instances[id].client : id \in InstanceIdsOfRun(0)}) = 3
  /\ Len(selected[clients[1]]) = 1
  /\ Len(selected[clients[2]]) = 2
  /\ \A id \in InstanceIdsOfRun(0) \ FailedAtCall :
       \A new \in InstanceIdsOfRun(1) :
         <<instances[new].client, instances[new].action>> #
           <<instances[id].client, instances[id].action>>

\* C14: in a run started by retryFailures the input of every new instance is
\* what getRetryInput() of the failed instance of the same action and the
\* same client in the run being retried returns.
C14_RetryInputSeeded ==
  (atCall.retry /\ clients # <<>>) =>
    \A id \in InstanceIdsOfRun(currentRunId) :
      \E f \in FailedAtCall :
        /\ instances[f].client = instances[id].client
        /\ instances[f].action = instances[id].action
        /\ instances[id].input = getRetryInput(instances[f])

\* every list of instance ids of the run record `before` is a prefix of the
\* list of the same action id in `after`
ListsOnlyGrow(before, after) ==
  \A a \in DOMAIN before.instancesByActionId :
    /\ a \in DOMAIN after.instancesByActionId
    /\ LET old == before.instancesByActionId[a]
           new == after.instancesByActionId[a]
       IN Len(new) >= Len(old) /\ SubSeq(new, 1, Len(old)) = old
\* the instance ids recorded in the runs rs

PlacesOf(id) ==
  {<<r, a, n>> \in (DOMAIN runs) \X ActionIds \X (1..(MaxClients * MaxRuns)) :
     /\ a \in DOMAIN runs[r].instancesByActionId
     /\ n \in DOMAIN runs[r].instancesByActionId[a]
     /\ runs[r].instancesByActionId[a][n] = id}

\* C16: there is one instance per run, client and action. Once the instances
\* of a call of runActionsOnClient are created there is one per action id of
\* the client, with that client, that action and the config of that action,
\* under an id that was not in use when run was invoked and that no other
\* call has; every instance of the store is recorded in exactly one place,
\* the list of its action id in one run, and no run has two instances for
\* the same client and action.
C16_OneInstancePerRunClientAction ==
  /\ DOMAIN instances = 0..(lastInstanceId - 1)
  /\ \A id \in DOMAIN instances :
       /\ Cardinality(PlacesOf(id)) = 1
       /\ \A place \in PlacesOf(id) : place[2] = instances[id].action
       /\ instances[id].config = config_actions[instances[id].action]
  /\ \A r \in DOMAIN runs :
       \A id1, id2 \in InstanceIdsOfRun(r - 1) :
         (/\ instances[id1].client = instances[id2].client
          /\ instances[id1].action = instances[id2].action) => id1 = id2
  /\ \A i \in DOMAIN cl :
       LET c == cl[i]
       IN c.pc # "createTask" =>
            /\ Len(c.instanceIds) = Len(c.actionIds)
            /\ NoDuplicates(c.instanceIds)
            /\ \A k \in DOMAIN c.instanceIds :
                 LET id == c.instanceIds[k]
                 IN /\ id >= atCall.lastInstanceId
                    /\ id \in InstanceIdsOfRun(currentRunId)
                    /\ instances[id].client = c.client
                    /\ instances[id].action = c.actionIds[k]
                    /\ instances[id].config = config_actions[c.actionIds[k]]
                    /\ \A j \in DOMAIN cl :
                         j # i => id \notin Range(cl[j].instanceIds)

C16_Witness ==
  /\ pc = "done"
  /\ Len(runs) = 2
  /\ \E i \in DOMAIN cl :
       /\ Len(cl[i].instanceIds) = MaxActions
       /\ \A k \in DOMAIN cl[i].instanceIds :
            \E old \in InstanceIdsOfRun(0) :
              /\ old # cl[i].instanceIds[k]
              /\ instances[old].client = cl[i].client
              /\ instances[old].action = cl[i].actionIds[k]
              /\ instances[old].error # NoError
              /\ instances[cl[i].instanceIds[k]].error = NoError

\* func of the task of action k of the client threw: the tax types are
\* missing, or instance.run threw (it then left no failure bookkeeping)
ActionThrew(c, k) ==
  /\ c.act[k].pc = "settled"
  /\ \/ ~c.act[k].ran
     \/ c.act[k].state = ERROR /\ instances[c.instanceIds[k]].failures = {}
\* func of the main task of the client threw
ClientThrew(c) ==
  \/ LoginFailed(c)
  \/ LogoutFailed(c)
  \/ c.pc = "returned" /\ c.taxTypesFetch = "failed" /\ c.act = <<>>

\* C19: a throw of the body of taskFunction becomes task state. Without
\* catchErrors the error is put on the task and rethrown: runActionOnClient
\* sees it in its catch block (the error is shown and put on the instance,
\* the main task gets it if the action is the only one) and
\* runActionsOnClient sees it in its catch block (the error is shown, the
\* call returns normally). With catchErrors, as in run, nothing reaches the
\* caller: run never throws.
C19_TaskFunctionTranslatesThrows ==
  /\ ~taskFunction_rethrows(TRUE, run_catchErrors)
  /\ pc # "rejected"
  /\ \A i \in DOMAIN cl :
       LET c == cl[i]
       IN /\ \A k \in DOMAIN c.act :
               ActionThrew(c, k) =>
                 /\ c.act[k].state = ERROR
                 /\ instances[c.instanceIds[k]].error \in
                      {MissingTaxTypesError, ValidationError}
                 /\ instances[c.instanceIds[k]].error \in shown
                 /\ c.mainState # SUCCESS
                 /\ isSingleAction(c) => c.mainState = ERROR
          /\ ClientThrew(c) =>
               /\ c.mainState = ERROR
               /\ shown \cap {LoginError, TaxTypesError, LogoutError} # {}
               /\ c.promise = "resolved"

C19_Witness ==
  /\ pc = "done"
  /\ Len(cl) >= 2
  /\ LoginFailed(cl[1])
  /\ LoginError \in shown
  /\ \E k \in DOMAIN cl[2].act :
       /\ ~cl[2].act[k].ran
       /\ ActionThrew(cl[2], k)
       /\ instances[cl[2].instanceIds[k]].error = MissingTaxTypesError
  /\ MissingTaxTypesError \in shown
  /\ cl[2].mainState = WARNING
  /\ rootTask = ERROR

\* C20: a task that takes its state from its children ends in state error
\* if a child is in state error, else in state warning if a child is in
\* state warning, else in state success: {success, success, warning} give
\* warning, {success, error, warning} give error, {success, success} give
\* success; and when the loop of run is over the root task has the state its
\* children, the main tasks of the clients, give this way.
C20_RootStateFromMainTasks ==
  /\ setStateBasedOnChildren(<<SUCCESS, SUCCESS, WARNING>>) = WARNING
  /\ setStateBasedOnChildren(<<SUCCESS, ERROR, WARNING>>) = ERROR
  /\ setStateBasedOnChildren(<<SUCCESS, SUCCESS>>) = SUCCESS
  /\ (pc \in {"finally", "done"} /\ clients # <<>>) =>
       LET states == {cl[i].mainState : i \in DOMAIN cl}
       IN /\ states \subseteq {SUCCESS, WARNING, ERROR}
          /\ ERROR \in states => rootTask = ERROR
          /\ (ERROR \notin states /\ WARNING \in states) => rootTask = WARNING
          /\ states = {SUCCESS} => rootTask = SUCCESS

C20_Witness ==
  /\ pc = "done"
  /\ Len(cl) = 3
  /\ cl[1].mainState = SUCCESS
  /\ cl[2].mainState = ERROR
  /\ cl[3].mainState = WARNING
  /\ rootTask = ERROR

\* C17: for every list of N items and every set S of items for which func
\* throws, parallelTaskMap returns N results in the order of the list,
\* whatever the order of completion; result i is an error result iff item i
\* is in S, and the result of an item outside S is the value of the item,
\* the one it has when nothing fails.
C17_ResultsInInputOrder ==
  (pm.kind = "map" /\ pm.pc = "returned") =>
    /\ Len(pm.results) = Len(pm.list)
    /\ \A i \in DOMAIN pm.list :
         /\ pm.results[i].kind # "empty"
         /\ pm.results[i].item = <<pm.list[i]>>
         /\ pm.results[i].kind = "error" <=> pm.list[i] \in pm.throws
         /\ pm.list[i] \notin pm.throws =>
              pm.results[i] = [item |-> <<pm.list[i]>>, kind |-> "value",
                               value |-> valueOf(pm.list[i])]

C17_Witness ==
  /\ pm.kind = "map"
  /\ pm.pc = "returned"
  /\ pm.list = <<"acc2", "acc3", "acc1">>
  /\ pm.throws = {"acc3"}
  /\ pm.completed = <<2, 1, 3>>
  /\ pm.results[2].kind = "error"
  /\ pm.results[3] = [item |-> <<"acc1">>, kind |-> "value", value |-> valueOf("acc1")]

\* C18: getPagedData with no pages given. Page 1 is the first page fetched,
\* no other page is fetched before the fetch of page 1 has completed, no page
\* is fetched twice, and when the fetch of page 1 succeeds getPagedData
\* returns exactly numPages results, one for every page 1..numPages, for
\* every numPages >= 1; when it fails no other page is fetched.
C18_PageOneFirstEveryPageOnce ==
  (pm.kind = "paged" /\ pm.pages = <<>>) =>
    /\ pm.issued # <<>> /\ pm.issued[1] = 1
    /\ NoDuplicates(pm.issued)
    /\ Range(pm.issued) \subseteq 1..pm.numPages
    /\ pm.pc \in {"first", "threw"} => pm.issued = <<1>>
    /\ pm.pc = "threw" <=> (pm.pc # "first" /\ 1 \in pm.throws)
    /\ pm.pc = "returned" =>
         /\ Len(pm.allResults) = pm.numPages
         /\ {pm.allResults[n].page : n \in DOMAIN pm.allResults} = 1..pm.numPages
         /\ Range(pm.issued) = 1..pm.numPages
         /\ \A n \in DOMAIN pm.allResults :
              LET result == pm.allResults[n]
              IN /\ result.kind = "error" <=> result.page \in pm.throws
                 /\ result.kind = "value" => result.value = valueOf(result.page)

C18_Witness ==
  /\ pm.kind = "paged"
  /\ pm.pages = <<>>
  /\ pm.pc = "returned"
  /\ pm.numPages = MaxPages
  /\ pm.throws = {2}
  /\ pm.issued[1] = 1
  /\ pm.completed = <<2, 1>>
  /\ Len(pm.allResults) = MaxPages

\* C28: for every client whose login succeeded logout is invoked before
\* runActionsOnClient returns, hence before the login of the next client, on
\* every path: also when the fetch of the tax types fails and all actions
\* require them, and when actions fail.
C28_LogoutBeforeReturn ==
  \A i \in DOMAIN cl :
    /\ (cl[i].pc = "returned" /\ cl[i].loggedInTabId # NoTab) => cl[i].logoutCalls = 1
    /\ (cl[i].loginCalls > 0 /\ i > 1) =>
         (cl[i - 1].loggedInTabId # NoTab => cl[i - 1].logoutCalls = 1)

\* action k of the client has written the state of the client's main task:
\* the catch block (a single action) or the finally block of runActionOnClient
WroteMainTask(c, k) ==
  /\ c.act[k].pc = "settled"
  /\ c.act[k].taskHasError \/ (isSingleAction(c) /\ c.act[k].state = ERROR)
\* some action of the client has been dispatched and has not settled
ActionsRunning(c) == \E k \in DOMAIN c.act : c.act[k].pc # "settled"

\* C27 as stated: no task has concurrent writers; in particular the main task
\* of a client is not written by two of the client's actions, which run
\* concurrently.
C27_OneActionWritesMainTask ==
  \A i \in DOMAIN cl :
    Cardinality({k \in DOMAIN cl[i].act : WroteMainTask(cl[i], k)}) <= 1

\* C27 as amended: while actions of a client are running, the state of the
\* client's main task is written only by an action that fails, in the step
\* in which that action settles, and every such write sets the same value
\* (warning, or error if it is the only action); runActionsOnClient itself
\* writes it only when no action is running.
C27_OnlyFailingActionsWriteMainTask ==
  [][\A i \in DOMAIN cl :
       (/\ i \in DOMAIN cl'
        /\ cl'[i].mainState # cl[i].mainState
        /\ ActionsRunning(cl[i])) =>
          /\ \E k \in DOMAIN cl[i].act :
               /\ cl[i].act[k].pc # "settled"
               /\ WroteMainTask(cl'[i], k)
               /\ \A j \in DOMAIN cl[i].act \ {k} : cl'[i].act[j] = cl[i].act[j]
          /\ cl'[i].mainState = IF isSingleAction(cl[i]) THEN ERROR ELSE WARNING]_vars

C27_Witness ==
  \E i \in DOMAIN cl :
    /\ Len(cl[i].act) = 2
    /\ WroteMainTask(cl[i], 1)
    /\ WroteMainTask(cl[i], 2)
    /\ cl[i].pc = "actions"
    /\ cl[i].mainState = WARNING

\* the ledger of tax type t failed as a whole in the first run (no account
\* code, or page 1 could not be fetched), or only some of its pages did
FailedWhole(t) == ~lg.fetch[t].accountCode \/ 1 \in lg.fetch[t].failed
FailedPartly(t) == ~FailedWhole(t) /\ lg.fetch[t].failed # {}
SomethingFailed == \E t \in Range(lg.taxAccounts) : FailedWhole(t) \/ FailedPartly(t)

\* C21: shouldRetry() of an instance is true iff the instance has an error
\* or its failure bookkeeping records failed sub-work (for the ledger runner:
\* some tax type or some page failed), and it returns a boolean, without
\* throwing, for an instance in any state, also one on which nothing failed.
C21_ShouldRetryAnswers ==
  lg.shouldRetry.called =>
    /\ ~lg.shouldRetry.threw
    /\ lg.shouldRetry.value <=> (lg.first.error # NoError \/ SomethingFailed)

\* the records of the given pages of the ledger of tax type t
RecordsOfPages(t, pages) == flatten([n \in DOMAIN pages |-> recordsOf(t, pages[n])])
AllPages(t) == [n \in 1..lg.fetch[t].numPages |-> n]
SucceededPages(t) == Ascending((1..lg.fetch[t].numPages) \ lg.fetch[t].failed)
\* the tax types recorded as failed, if the bookkeeping has such a list
FailedTaxTypeIds(failures) ==
  IF hasFailedTaxTypeIds(failures) THEN Range(failures.taxTypeIds) ELSE {}

\* C22: the retry input of a ledger instance on which something failed,
\* given to a fresh instance of the action for the same client, makes that
\* instance request all pages of each tax type that failed as a whole, only
\* the failed pages of each tax type that failed partly, and nothing of a
\* tax type that succeeded.
C22_RetryInputRequestsWhatFailed ==
  (lg.retryInput.called /\ SomethingFailed) =>
    /\ ~lg.retryInput.threw
    /\ LET fresh == ledger_runInternal(lg.taxAccounts, lg.retryInput.value,
                                       succeeds(lg.fetch))
       IN \A t \in Range(lg.taxAccounts) :
            /\ FailedWhole(t) => t \in DOMAIN fresh.requested
                                 /\ fresh.requested[t] = AllPages(t)
            /\ FailedPartly(t) => t \in DOMAIN fresh.requested
                                  /\ fresh.requested[t] = Ascending(lg.fetch[t].failed)
            /\ ~(FailedWhole(t) \/ FailedPartly(t)) => t \notin DOMAIN fresh.requested

\* C23: after the run of the action on a client whose ledger has 5 pages of
\* which pages 2 and 4 fail, shouldRetry() is true, getRetryInput() names
\* the pages 2 and 4, and the records of pages 1, 3 and 5 are in the output
\* of the instance.
C23_FivePagesTwoFail ==
  \A t \in Range(lg.taxAccounts) :
    (/\ lg.taxAccounts = <<t>>
     /\ lg.fetch[t] = [accountCode |-> TRUE, numPages |-> 5, failed |-> {2, 4}]
     /\ lg.pc = "input") =>
       /\ ~lg.shouldRetry.threw /\ lg.shouldRetry.value
       /\ ~lg.retryInput.threw
       /\ "pages" \in DOMAIN lg.retryInput.value
       /\ lg.retryInput.value.pages.pages = [u \in {t} |-> <<2, 4>>]
       /\ lg.first.outputSet
       /\ t \in DOMAIN lg.first.output
       /\ lg.first.output[t] = RecordsOfPages(t, <<1, 3, 5>>)

\* C29: after runInternal of the ledger runner the output is set and every
\* selected tax account is in exactly one of three cases: (a) its fetch
\* failed as a whole: its id is in failures.taxTypeIds and the output has no
\* key for it; (b) some of its pages failed: the output holds the records of
\* the pages that succeeded, failures.pages lists the failed pages and the
\* id is in failures.taxTypeIds; (c) nothing failed: the output holds the
\* records of all pages and the id is nowhere in failures.
C29_ThreeCases ==
  lg.pc # "idle" =>
    /\ lg.first.outputSet
    /\ \A t \in Range(lg.taxAccounts) :
         LET failures == lg.first.failures
             output == lg.first.output
         IN /\ FailedWhole(t) =>
                 /\ t \in FailedTaxTypeIds(failures)
                 /\ t \notin DOMAIN output
            /\ FailedPartly(t) =>
                 /\ t \in DOMAIN output
                 /\ output[t] = RecordsOfPages(t, SucceededPages(t))
                 /\ t \in DOMAIN failures.pages
                 /\ failures.pages[t] = Ascending(lg.fetch[t].failed)
                 /\ t \in FailedTaxTypeIds(failures)
            /\ ~(FailedWhole(t) \/ FailedPartly(t)) =>
                 /\ t \in DOMAIN output
                 /\ output[t] = RecordsOfPages(t, AllPages(t))
                 /\ t \notin FailedTaxTypeIds(failures)
                 /\ t \notin DOMAIN failures.pages

\* the fetch for tax account t of the pending liabilities runner failed
FetchFailed(t) == pl.outcomes[t] \in FetchErrors
\* the run of the pending liabilities runner, had the fetch for t succeeded
WithoutFailureOf(t) ==
  pending_runInternal(pl.taxAccounts, [pl.outcomes EXCEPT ![t] = "grandTotal"], pl.wrapped)

\* C30: after runInternal of the pending liabilities runner on tax accounts
\* of pairwise distinct tax types, the keys of output.totals and of
\* output.retrievalErrors are disjoint and together are the tax types of the
\* client's registered tax accounts; a failure while fetching one tax
\* account leaves the totals of every other tax account as they are without
\* that failure, and runInternal does not throw because of it.
C30_TotalsAndRetrievalErrorsPartition ==
  pl.pc = "ran" =>
    LET totals == pl.output.totals
        retrievalErrors == pl.output.retrievalErrors
    IN /\ ~pl.threw /\ pl.outputSet
       /\ DOMAIN totals \cap DOMAIN retrievalErrors = {}
       /\ DOMAIN totals \cup DOMAIN retrievalErrors = Range(pl.taxAccounts)
       /\ \A t \in Range(pl.taxAccounts) :
            FetchFailed(t) =>
              /\ t \in DOMAIN retrievalErrors
              /\ \A u \in Range(pl.taxAccounts) \ {t} :
                   /\ u \in DOMAIN totals <=> u \in DOMAIN WithoutFailureOf(t).output.totals
                   /\ u \in DOMAIN totals => totals[u] = WithoutFailureOf(t).output.totals[u]

C30_Witness ==
  /\ pl.pc = "ran"
  /\ Len(pl.taxAccounts) = 2
  /\ FetchFailed(pl.taxAccounts[1])
  /\ pl.taxAccounts[1] \in DOMAIN pl.output.retrievalErrors
  /\ pl.taxAccounts[2] \in DOMAIN pl.output.totals
  /\ pl.output.totals[pl.taxAccounts[2]] = object(<<"totals of", pl.taxAccounts[2]>>)

\* C26: a page fetch that ends with 'no records found' counts as a
\* successful but empty result: it adds nothing to the failure bookkeeping
\* (no failed page, no failed tax type, no retrieval error), sets no retry
\* reason and does not make shouldRetry() true.
C26_NoRecordsIsNotAFailure ==
  /\ (/\ lg.pc # "idle"
      /\ lg.cause = "NoRecordsFound"
      /\ \A t \in Range(lg.taxAccounts) : lg.fetch[t].accountCode) =>
        /\ lg.first.failures = getInitialFailuresObj
        /\ lg.first.error = NoError
        /\ lg.shouldRetry.called => ~lg.shouldRetry.threw /\ ~lg.shouldRetry.value
  /\ pl.pc = "ran" =>
        /\ \A t \in Range(pl.taxAccounts) :
             pl.outcomes[t] = "NoRecordsFound" => t \notin DOMAIN pl.output.retrievalErrors
        /\ (\A t \in Range(pl.taxAccounts) :
              pl.outcomes[t] \in {"grandTotal", "noRows", "NoRecordsFound"}) =>
             ~pl.retryReason

\* C24: mergeAllRunOutputs takes the ordered list allRunOutputs and stores
\* the merged result in the output of the instance; merging a list that
\* holds a single output, in particular one that is the result of a merge,
\* leaves that output as it is.
C24_MergeIsIdempotent ==
  /\ (mg.pc = "merged" /\ Len(mg.allRunOutputs) = 1) => mg.output = mg.allRunOutputs[1]
  /\ mg.pc = "merged again" =>
       /\ mg.allRunOutputs = <<mg.previous>>
       /\ mg.output = mg.previous

C24_Witness ==
  /\ mg.pc = "merged again"
  /\ DOMAIN mg.previous = SubUnits
  /\ mg.previous["x"] # mg.previous["y"]
  /\ mg.output = mg.previous

\* the outputs of the first instance and of the instance that retried it, as
\* far as they were set
LedgerRunOutputs ==
  (IF lg.first.outputSet THEN <<lg.first.output>> ELSE <<>>)
  \o (IF lg.retry.outputSet THEN <<lg.retry.output>> ELSE <<>>)

\* C25: merging the output of a run A in which sub-unit X failed with the
\* output of a retry B that supplies X gives X from B and every other
\* sub-unit from A; for the ledger action: after a retry the output holds
\* the records of the pages that succeeded in the first run together with
\* the records of the retried pages.
C25_MergeIsRetryCorrect ==
  /\ (mg.pc = "merged" /\ Len(mg.allRunOutputs) = 2) =>
       LET A == mg.allRunOutputs[1]
           B == mg.allRunOutputs[2]
       IN /\ DOMAIN mg.output = DOMAIN A \cup DOMAIN B
          /\ \A X \in DOMAIN B \ DOMAIN A : mg.output[X] = B[X]
          /\ \A unit \in DOMAIN A : mg.output[unit] = A[unit]
  /\ lg.pc = "retried" =>
       LET merged == mergeAllRunOutputs(LedgerRunOutputs)
       IN \A t \in Range(lg.taxAccounts) :
            /\ t \in DOMAIN merged
            /\ Range(merged[t]) = Range(RecordsOfPages(t, AllPages(t)))

\* the runner gets no totals for tax account t: the fetch threw, the last
\* row of the report is not the grand total, or the results of
\* parallelTaskMap are slots that have no field totals
NoTotals(t) == pl.wrapped \/ pl.outcomes[t] \in FetchErrors \cup {"noGrandTotal"}

\* C31 as stated: the pending liabilities runner sets a retry reason iff the
\* fetch of at least one tax account threw; a tax account whose fetch
\* completed, also with null totals, never causes a retry reason.
C31_RetryReasonIffFetchThrew ==
  pl.pc = "ran" =>
    (pl.retryReason <=> \E t \in Range(pl.taxAccounts) : FetchFailed(t))

\* C31 as amended: the runner sets a retry reason iff it got no totals for at
\* least one tax account, which is the case when the fetch threw and also
\* when it completed with null totals; these tax accounts are the keys of
\* output.retrievalErrors.
C31_RetryReasonIffNoTotals ==
  pl.pc = "ran" =>
    /\ pl.retryReason <=> \E t \in Range(pl.taxAccounts) : NoTotals(t)
    /\ DOMAIN pl.output.retrievalErrors = {t \in Range(pl.taxAccounts) : NoTotals(t)}

C31_Witness ==
  /\ pl.pc = "ran"
  /\ ~pl.wrapped
  /\ Len(pl.taxAccounts) = 2
  /\ pl.outcomes[pl.taxAccounts[1]] = "grandTotal"
  /\ pl.outcomes[pl.taxAccounts[2]] = "noGrandTotal"
  /\ pl.retryReason
  /\ pl.output.retrievalErrors = [t \in {pl.taxAccounts[2]} |-> object(<<>>)]

\* the batch of the client has ended with a logout that completed
LoggedOutNormally(c) == c.pc = "returned" /\ c.loggedOut
\* some action of the client failed
SomeActionFailed(c) == \E k \in DOMAIN c.act : ActionFailed(c, k)

\* C32: when the batch of a client reaches a logout that completes, the
\* final state of the main task is the error or warning set by a failed
\* action if there is one, else warning if a child task is in state
\* warning, else success; a warning or error of the main task is never
\* overwritten with success, and the main task does not end in success
\* while an action of the client failed.
C32_MainStateAfterLogout ==
  /\ [](\A i \in DOMAIN cl :
          LoggedOutNormally(cl[i]) =>
            cl[i].mainState =
              IF SomeActionFailed(cl[i])
              THEN (IF isSingleAction(cl[i]) THEN ERROR ELSE WARNING)
              ELSE IF \E k \in DOMAIN cl[i].act : cl[i].act[k].state = WARNING
              THEN WARNING
              ELSE SUCCESS)
  /\ [][\A i \in DOMAIN cl :
          (i \in DOMAIN cl' /\ cl[i].mainState \in {WARNING, ERROR}) =>
             cl'[i].mainState # SUCCESS]_vars

C32_Witness ==
  \E i \in DOMAIN cl :
    /\ LoggedOutNormally(cl[i])
    /\ Len(cl[i].act) = 2
    /\ ActionFailed(cl[i], 1)
    /\ cl[i].act[2].state = SUCCESS
    /\ cl[i].mainState = WARNING

\* the instances of the action in the current run
CurrentInstancesOf(actionId) ==
  IF currentRunId = NoRun THEN {}
  ELSE {id \in InstanceIdsOfRun(currentRunId) : instances[id].action = actionId}
\* the actions that have been run on some client, in any run
ActionsEverRun == {instances[id].action : id \in DOMAIN instances}

\* C33: once a run has finished, getOutputsOfAction(actionId) returns exactly
\* one entry per client that has an instance of the action in the current
\* run, with the error of that instance; instances of earlier runs
\* contribute nothing, so that after a retry the result has entries for the
\* retried clients only.
C33_OutputsOfCurrentRun ==
  pc = "done" =>
    \A actionId \in ActionsEverRun :
      LET got == getOutputsOfAction(instances, runs, currentRunId, actionId)
          current == CurrentInstancesOf(actionId)
      IN /\ ~got.threw
         /\ DOMAIN got.outputs = {instances[id].client : id \in current}
         /\ \A id \in current :
              got.outputs[instances[id].client] =
                [actionId |-> actionId, clientId |-> instances[id].client,
                 error |-> instances[id].error]


\* The run records that hold instance id: normally one.
RunsHolding(id) == {r \in 0..(Len(runs) - 1) : id \in InstanceIdsOfRun(r)}

\* C34: every instance an invocation of run created is recorded in the run
\* record this invocation started and in no other, also when another
\* invocation starts while it is still processing its clients.
C34_InstancesInOwnRun ==
  \A v \in DOMAIN ov : \A id \in ov[v].instanceIds : RunsHolding(id) = {ov[v].runId}


\* C35: closeTab is called at most once for a client and only on the tab id
\* that login returned: never after a logout that completed, never when
\* login failed (there is no tab id), and never when none of the client's
\* actions uses the logged in tab.
C35_CloseTabOnlyWhenNeeded ==
  \A i \in DOMAIN cl :
    /\ Len(cl[i].closeTabCalls) <= 1
    /\ cl[i].loggedOut => cl[i].closeTabCalls = <<>>
    /\ cl[i].loggedInTabId = NoTab => cl[i].closeTabCalls = <<>>
    /\ ~UsesLoggedInTab(cl[i]) => cl[i].closeTabCalls = <<>>
    /\ \A n \in DOMAIN cl[i].closeTabCalls :
         cl[i].closeTabCalls[n] = cl[i].loggedInTabId

\* A client whose logout threw and whose tab was closed, and a client whose
\* login failed and for which nothing was closed.
C35_Witness ==
  \E i, j \in DOMAIN cl :
    /\ cl[i].pc = "returned" /\ cl[i].logoutCalls = 1 /\ ~cl[i].loggedOut
    /\ cl[i].closeTabCalls = <<cl[i].loggedInTabId>>
    /\ cl[j].pc = "returned" /\ UsesLoggedInTab(cl[j])
    /\ cl[j].loginCalls = 1 /\ cl[j].loggedInTabId = NoTab
    /\ cl[j].closeTabCalls = <<>>


\* the states of a task that has ended
TerminalStates == {SUCCESS, WARNING, ERROR}

\* runActionsOnClient has returned for every client of the list, and run
\* has returned with the root task in a terminal state
RunFinished ==
  /\ pc = "done"
  /\ rootTask \in TerminalStates
  /\ Len(cl) = Len(clients)
  /\ \A i \in DOMAIN cl : cl[i].pc = "returned"

\* C36: when every awaited call settles, the main task of a client is in a
\* terminal state (success, warning or error) when runActionsOnClient
\* returns, whether the batch succeeded or login, the fetch of the tax
\* types, an action or logout failed, and a run that was started eventually
\* finishes with the root task in a terminal state.
C36_RunTerminates ==
  /\ [](\A i \in DOMAIN cl :
          cl[i].pc = "returned" => cl[i].mainState \in TerminalStates)
  /\ (pc # "idle") ~> RunFinished

\* A finished run in which a batch failed and a batch succeeded.
C36_Witness ==
  /\ RunFinished
  /\ \E i, j \in DOMAIN cl :
       /\ cl[i].mainState = ERROR /\ cl[i].logoutCalls = 1 /\ ~cl[i].loggedOut
       /\ cl[j].mainState = SUCCESS /\ cl[j].loggedOut

====
